---------------------------- MODULE Spec2Model ----------------------------
(***************************************************************************)
(* Session lookup engine of vnet/session (session_lookup.c): key encoders, *)
(* the fib-index registry of session tables, the entry mutators and the    *)
(* ordered lookups for IPv4 and IPv6.                                      *)
(*                                                                         *)
(* Machine words are little-endian sequences of 16-bit limbs, so that the  *)
(* shifts and ORs of the key encoders are computed at their C width:       *)
(* a u32 is <<l0, l1>>, a u64 is <<l0, l1, l2, l3>>.                       *)
(***************************************************************************)
EXTENDS Integers, Sequences, FiniteSets, TLC

VARIABLES
  fib_index_to_table_index, \* [fib_proto -> vector of table indices]
  session_tables,           \* pool of session_table_t: [index -> table]
  srtg,                     \* rules tables: [srtg_handle -> set of rules]
  call,                     \* the API call that has just returned, or Idle
  kin,                      \* key encoder: the tuple handed to the encoders
  kout,                     \* key encoder: the keys built so far
  fib_index_to_lock_count,  \* [fib_proto -> vector of lock counts]
  threads,                  \* [thread -> its position in the code it runs]
  st_alloc_lock,            \* slm->st_alloc_lock: its holder, or Unlocked
  main_barrier,             \* the main thread's worker barrier
  history,                  \* tables allocated and returned, per call
  node_main                 \* vlib_node_main_t: processes and resume queues

vars ==
  <<fib_index_to_table_index, session_tables, srtg, call, kin, kout,
    fib_index_to_lock_count, threads, st_alloc_lock, main_barrier, history,
    node_main>>

tableVars == <<fib_index_to_table_index, session_tables, srtg, call>>
keyVars == <<kin, kout>>
processVars == <<node_main>>
lockVars == <<fib_index_to_lock_count>>
allocVars == <<threads, st_alloc_lock, main_barrier, history>>

-----------------------------------------------------------------------------
(* Fixed-width words *)

LimbMod == 2 ^ 16
LimbMax == LimbMod - 1

RECURSIVE BitOr(_, _)
BitOr(a, b) ==
  IF a = 0 THEN b
  ELSE IF b = 0 THEN a
  ELSE (IF a % 2 = 1 \/ b % 2 = 1 THEN 1 ELSE 0) + 2 * BitOr(a \div 2, b \div 2)

\* (u64) x for a u8 or u16 x
U64FromU16(x) == <<x % LimbMod, 0, 0, 0>>
\* (u64) x for a u32 x
U64FromU32(x) == <<x[1], x[2], 0, 0>>
\* (u32) x for a u64 x
U32FromU64(x) == <<x[1], x[2]>>
\* a | b
Or64(a, b) == [i \in 1..4 |-> BitOr(a[i], b[i])]
\* a << 16
Shl16(a) == <<0, a[1], a[2], a[3]>>
\* a << 32
Shl32(a) == <<0, 0, a[1], a[2]>>
\* a >> 32
Shr32(a) == <<a[3], a[4], 0, 0>>
\* a & 0xFFFFFFFF
Low32(a) == <<a[1], a[2], 0, 0>>

U64_ZERO == <<0, 0, 0, 0>>
U64_ALL_ONES == <<LimbMax, LimbMax, LimbMax, LimbMax>>
U32_ZERO == <<0, 0>>
U32_ALL_ONES == <<LimbMax, LimbMax>>
\* a small natural as a u32
U32(n) == <<n % LimbMod, (n \div LimbMod) % LimbMod>>

-----------------------------------------------------------------------------
(* Key encoders *)

\* make_v4_ss_kv with the remote port left at bit 0, over the local port
make_v4_ss_kv_ports_overlap(lcl, rmt, lcl_port, rmt_port, proto) ==
  << Or64(Shl32(U64FromU32(rmt)), U64FromU32(lcl)),
     Or64(Or64(Shl32(U64FromU16(proto)), U64FromU16(rmt_port)),
          U64FromU16(lcl_port)) >>

make_v4_ss_kv(lcl, rmt, lcl_port, rmt_port, proto) ==
  << Or64(Shl32(U64FromU32(rmt)), U64FromU32(lcl)),
     Or64(Or64(Shl32(U64FromU16(proto)), Shl16(U64FromU16(rmt_port))),
          U64FromU16(lcl_port)) >>

\* make_v4_listener_kv with the proto packed at bit 16, where a connection key
\* holds the remote port
make_v4_listener_kv_proto16(lcl, lcl_port, proto) ==
  << U64FromU32(lcl),
     Or64(Shl16(U64FromU16(proto)), U64FromU16(lcl_port)) >>

make_v4_listener_kv(lcl, lcl_port, proto) ==
  << U64FromU32(lcl),
     Or64(Shl32(U64FromU16(proto)), U64FromU16(lcl_port)) >>

\* make_v4_proxy_kv with the address zeroed as well
make_v4_proxy_kv_any(lcl, proto) ==
  << U64_ZERO, Shl32(U64FromU16(proto)) >>

make_v4_proxy_kv(lcl, proto) ==
  << U64FromU32(lcl), Shl32(U64FromU16(proto)) >>

make_v6_ss_kv(lcl, rmt, lcl_port, rmt_port, proto) ==
  << lcl[1], lcl[2], rmt[1], rmt[2],
     Or64(Or64(Shl32(U64FromU16(proto)), Shl16(U64FromU16(rmt_port))),
          U64FromU16(lcl_port)),
     U64_ZERO >>

make_v6_listener_kv(lcl, lcl_port, proto) ==
  << lcl[1], lcl[2], U64_ZERO, U64_ZERO,
     Or64(Shl32(U64FromU16(proto)), U64FromU16(lcl_port)),
     U64_ZERO >>

\* make_v6_proxy_kv with the local address left out of the key
make_v6_proxy_kv_no_lcl(lcl, proto) ==
  << U64_ZERO, U64_ZERO, U64_ZERO, U64_ZERO, Shl32(U64FromU16(proto)),
     U64_ZERO >>

make_v6_proxy_kv(lcl, proto) ==
  << lcl[1], lcl[2], U64_ZERO, U64_ZERO, Shl32(U64FromU16(proto)), U64_ZERO >>

-----------------------------------------------------------------------------
(* Constants of the session layer *)

FIB_PROTOCOL_IP4 == 0
FIB_PROTOCOL_IP6 == 1
FIB_PROTOCOL_MAX == 3
FibProtos == {FIB_PROTOCOL_IP4, FIB_PROTOCOL_IP6}

TRANSPORT_PROTO_TCP == 0
TRANSPORT_PROTO_UDP == 1

\* ~0 as a table index, fib index or rules-table handle
SESSION_TABLE_INVALID_INDEX == -1
SESSION_SRTG_HANDLE_INVALID == -1

SESSION_LOOKUP_RESULT_NONE == 0
SESSION_LOOKUP_RESULT_WRONG_THREAD == 1
SESSION_LOOKUP_RESULT_FILTERED == 2

\* u32 action indices of the rules table
SESSION_RULES_TABLE_INVALID_INDEX == U32_ALL_ONES
SESSION_RULES_TABLE_ACTION_DROP == <<LimbMax - 1, LimbMax>>
SESSION_RULES_TABLE_ACTION_ALLOW == <<LimbMax - 2, LimbMax>>

\* u64 handles
SESSION_INVALID_HANDLE == U64_ALL_ONES
SESSION_DROP_HANDLE == <<LimbMax - 1, LimbMax, LimbMax, LimbMax>>
HALF_OPEN_LOOKUP_INVALID_VALUE == U64_ALL_ONES

NULL == [kind |-> "NULL"]
Idle == [op |-> "idle"]

-----------------------------------------------------------------------------
(* clib_bihash: exact fixed-size key, 64-bit value *)

EmptyHash == <<>>

clib_bihash_add(h, key, value) ==
  [k \in (DOMAIN h) \cup {key} |-> IF k = key THEN value ELSE h[k]]

clib_bihash_del(h, key) == [k \in (DOMAIN h) \ {key} |-> h[k]]

\* rv of clib_bihash_add_del: 0, or non-zero when a delete finds no entry
clib_bihash_add_del_rv(h, key, is_add) ==
  IF is_add \/ key \in DOMAIN h THEN 0 ELSE -3

\* rv == 0 of clib_bihash_search_inline
clib_bihash_search_hit(h, key) == key \in DOMAIN h

-----------------------------------------------------------------------------
(* Session table pool and the fib-index registry *)

\* session_table_alloc + session_table_init: a zeroed table with empty hashes
NewSessionTable(fib_proto) ==
  [ active_fib_proto |-> fib_proto,
    is_local |-> FALSE,
    srtg_handle |-> SESSION_SRTG_HANDLE_INVALID,
    appns_index |-> <<>>,
    v4_session_hash |-> EmptyHash,
    v4_half_open_hash |-> EmptyHash,
    v6_session_hash |-> EmptyHash,
    v6_half_open_hash |-> EmptyHash ]

\* pool_get: the index the pool hands out next
PoolFreeIndex(pool) ==
  CHOOSE i \in 0..Cardinality(DOMAIN pool) :
    i \notin DOMAIN pool /\ \A j \in 0..(i - 1) : j \in DOMAIN pool

\* session_table_get: 0 (NULL) for a free pool index, ~0 included
session_table_get(pool, table_index) ==
  IF table_index \in DOMAIN pool THEN pool[table_index] ELSE NULL

vec_len(v) == Len(v)
vec_elt(v, i) == v[i + 1]

\* vec_validate_init_empty (v, index, init)
vec_validate_init_empty(v, index, init) ==
  IF Len(v) > index THEN v
  ELSE v \o [i \in 1..(index + 1 - Len(v)) |-> init]

session_table_is_alloced(reg, fib_proto, fib_index) ==
  /\ vec_len(reg[fib_proto]) > fib_index
  /\ vec_elt(reg[fib_proto], fib_index) # SESSION_TABLE_INVALID_INDEX

\* session_table_get_or_alloc that hands a new fib index the table of fib
\* index 0 of its family
session_table_get_or_alloc_shared(reg, pool, fib_proto, fib_index) ==
  IF session_table_is_alloced(reg, fib_proto, fib_index)
  THEN [ reg |-> reg, pool |-> pool,
         table_index |-> vec_elt(reg[fib_proto], fib_index) ]
  ELSE LET table_index == vec_elt(reg[fib_proto], 0)
           v == vec_validate_init_empty(reg[fib_proto], fib_index,
                                        SESSION_TABLE_INVALID_INDEX)
       IN [ reg |-> [reg EXCEPT ![fib_proto] =
                       [v EXCEPT ![fib_index + 1] = table_index]],
            pool |-> pool,
            table_index |-> table_index ]

\* The registry, the pool and the table index after session_table_get_or_alloc,
\* called without contention (the worker barrier and st_alloc_lock bracket the
\* second check and the allocation, which one caller runs to completion).
session_table_get_or_alloc(reg, pool, fib_proto, fib_index) ==
  IF session_table_is_alloced(reg, fib_proto, fib_index)
  THEN [ reg |-> reg, pool |-> pool,
         table_index |-> vec_elt(reg[fib_proto], fib_index) ]
  ELSE LET table_index == PoolFreeIndex(pool)
           v == vec_validate_init_empty(reg[fib_proto], fib_index,
                                        SESSION_TABLE_INVALID_INDEX)
       IN [ reg |-> [reg EXCEPT ![fib_proto] =
                       [v EXCEPT ![fib_index + 1] = table_index]],
            pool |-> [i \in (DOMAIN pool) \cup {table_index} |->
                       IF i = table_index THEN NewSessionTable(fib_proto)
                       ELSE pool[i]],
            table_index |-> table_index ]

transport_connection_fib_proto(tc) ==
  IF tc.is_ip4 THEN FIB_PROTOCOL_IP4 ELSE FIB_PROTOCOL_IP6

session_table_get_or_alloc_for_connection(reg, pool, tc) ==
  session_table_get_or_alloc(reg, pool, transport_connection_fib_proto(tc),
                             tc.fib_index)

\* The table index session_table_get_for_connection resolves, ~0 for none
session_table_get_for_connection(reg, tc) ==
  LET fib_proto == transport_connection_fib_proto(tc)
  IN IF vec_len(reg[fib_proto]) <= tc.fib_index
     THEN SESSION_TABLE_INVALID_INDEX
     ELSE vec_elt(reg[fib_proto], tc.fib_index)

\* session_lookup_get_index_for_fib, which session_table_get_for_fib_index
\* hands to session_table_get
session_lookup_get_index_for_fib(reg, fib_proto, fib_index) ==
  IF vec_len(reg[fib_proto]) <= fib_index
  THEN SESSION_TABLE_INVALID_INDEX
  ELSE vec_elt(reg[fib_proto], fib_index)

session_table_get_for_fib_index(reg, pool, fib_proto, fib_index) ==
  IF vec_len(reg[fib_proto]) <= fib_index THEN NULL
  ELSE session_table_get(pool, vec_elt(reg[fib_proto], fib_index))

make_v4_ss_kv_from_tc(tc) ==
  make_v4_ss_kv(tc.lcl_ip, tc.rmt_ip, tc.lcl_port, tc.rmt_port, tc.proto)

make_v6_ss_kv_from_tc(tc) ==
  make_v6_ss_kv(tc.lcl_ip, tc.rmt_ip, tc.lcl_port, tc.rmt_port, tc.proto)

-----------------------------------------------------------------------------
(* Collaborators: session and transport pools, applications, namespaces,   *)
(* the rules table                                                         *)

\* session_get (session_index, thread_index): the session object of a pool
session_get(session_index, thread_index) ==
  [kind |-> "session", thread_index |-> thread_index,
   session_index |-> session_index]

\* session_get_from_handle / session_get_from_handle_safe: thread in the high
\* 32 bits of the handle, index in the low 32
session_get_from_handle(handle) ==
  [kind |-> "session", thread_index |-> U32FromU64(Shr32(handle)),
   session_index |-> U32FromU64(Low32(handle))]

\* listen_session_get (ls_index): listeners live in the pool of thread 0
listen_session_get(ls_index) == session_get(ls_index, U32_ZERO)

\* transport_get_connection (proto, s->connection_index, thread_index)
transport_get_connection(proto, s, thread_index) ==
  [kind |-> "connection", proto |-> proto, thread_index |-> thread_index,
   session_index |-> s.session_index]

\* transport_get_half_open (proto, conn_index)
transport_get_half_open(proto, conn_index) ==
  [kind |-> "half_open", proto |-> proto, conn_index |-> conn_index]

\* transport_get_listener (proto, s->connection_index)
transport_get_listener(proto, s) ==
  [kind |-> "listener", proto |-> proto, session_index |-> s.session_index]

\* Applications: app 1 listens for every (fib_proto, transport_proto), app 2
\* exists and has no listener, no other application exists.
AppWithListener == U32(1)
AppWithoutListener == U32(2)
AppListenerIndex == U32(9)

app_worker_first_listener(app_index, fib_proto, transport_proto) ==
  IF app_index = AppWithListener THEN listen_session_get(AppListenerIndex)
  ELSE NULL

application_is_valid(app_index) ==
  app_index \in {AppWithListener, AppWithoutListener}

\* ~0 as a fib index or a namespace field that is not set
INDEX_INVALID == -1

\* Application namespaces: the default namespace, on fib 0 of both families
\* with local table 2; namespace 1 on fib 1 of both families; namespace 2 on
\* fib 1 for IPv4 and on no fib for IPv6
app_namespaces ==
  [i \in {0, 1, 2} |->
     IF i = 0 THEN [ip4_fib_index |-> 0, ip6_fib_index |-> 0,
                    local_table_index |-> 2]
     ELSE IF i = 1 THEN [ip4_fib_index |-> 1, ip6_fib_index |-> 1,
                         local_table_index |-> SESSION_TABLE_INVALID_INDEX]
     ELSE [ip4_fib_index |-> 1, ip6_fib_index |-> INDEX_INVALID,
           local_table_index |-> SESSION_TABLE_INVALID_INDEX]]

app_namespace_get_fib_index(app_ns, fib_proto) ==
  IF fib_proto = FIB_PROTOCOL_IP4 THEN app_ns.ip4_fib_index
  ELSE app_ns.ip6_fib_index

\* A rule: transport proto, local and remote prefix (len 0 matches every
\* address), local and remote port (0 matches every port), action index.
PrefixMatches(pfx, addr) == pfx.len = 0 \/ pfx.addr = addr
PortMatches(rule_port, port) == rule_port = 0 \/ rule_port = port

RuleMatches(r, proto, lcl, rmt, lcl_port, rmt_port) ==
  /\ r.transport_proto = proto
  /\ PrefixMatches(r.lcl, lcl) /\ PrefixMatches(r.rmt, rmt)
  /\ PortMatches(r.lcl_port, lcl_port) /\ PortMatches(r.rmt_port, rmt_port)

RuleWeight(r) ==
  r.lcl.len + r.rmt.len + (IF r.lcl_port = 0 THEN 0 ELSE 1)
  + (IF r.rmt_port = 0 THEN 0 ELSE 1)

RuleKey(r) == [r EXCEPT !.action_index = U32_ZERO]

\* session_rules_table_lookup4/6 (one rules table per address family): the action of the most specific matching
\* rule, SESSION_RULES_TABLE_INVALID_INDEX when none matches
session_rules_table_lookup(srtg_handle, fib_proto, proto, lcl, rmt, lcl_port, rmt_port) ==
  LET hits == {r \in srtg[srtg_handle][fib_proto] :
                 RuleMatches(r, proto, lcl, rmt, lcl_port, rmt_port)}
  IN IF hits = {} THEN SESSION_RULES_TABLE_INVALID_INDEX
     ELSE (CHOOSE r \in hits :
             \A o \in hits : RuleWeight(o) <= RuleWeight(r)).action_index

-----------------------------------------------------------------------------
(* Rule actions *)

\* session_lookup_action_index_is_valid that takes DROP for no decision
session_lookup_action_index_is_valid_no_drop(action_index) ==
  IF \/ action_index = SESSION_RULES_TABLE_ACTION_ALLOW
     \/ action_index = SESSION_RULES_TABLE_INVALID_INDEX
     \/ action_index = SESSION_RULES_TABLE_ACTION_DROP
  THEN FALSE
  ELSE TRUE

session_lookup_action_index_is_valid(action_index) ==
  IF \/ action_index = SESSION_RULES_TABLE_ACTION_ALLOW
     \/ action_index = SESSION_RULES_TABLE_INVALID_INDEX
  THEN FALSE
  ELSE TRUE

\* session_lookup_action_to_handle without the DROP case
session_lookup_action_to_handle_no_drop(action_index) ==
  CASE action_index \in {SESSION_RULES_TABLE_ACTION_ALLOW,
                         SESSION_RULES_TABLE_INVALID_INDEX} ->
         SESSION_INVALID_HANDLE
    [] OTHER -> U64FromU32(action_index)

session_lookup_action_to_handle(action_index) ==
  CASE action_index = SESSION_RULES_TABLE_ACTION_DROP -> SESSION_DROP_HANDLE
    [] action_index \in {SESSION_RULES_TABLE_ACTION_ALLOW,
                         SESSION_RULES_TABLE_INVALID_INDEX} ->
         SESSION_INVALID_HANDLE
    [] OTHER -> U64FromU32(action_index)

session_lookup_app_listen_session(app_index, fib_proto, transport_proto) ==
  IF ~application_is_valid(app_index) THEN NULL
  ELSE app_worker_first_listener(app_index, fib_proto, transport_proto)

\* session_lookup_action_to_session that takes the action index for a listen
\* session index
session_lookup_action_to_session_raw(action_index, fib_proto, transport_proto) ==
  listen_session_get(action_index)

session_lookup_action_to_session(action_index, fib_proto, transport_proto) ==
  LET app_index == U32FromU64(session_lookup_action_to_handle(action_index))
  IN session_lookup_app_listen_session(app_index, fib_proto, transport_proto)

-----------------------------------------------------------------------------
(* Listener lookup *)

\* session_lookup_listener4_i that probes the address-zeroed key first
session_lookup_listener4_i_any_first(st, lcl, lcl_port, proto, use_wildcard) ==
  LET h == st.v4_session_hash
      kv4 == make_v4_listener_kv(lcl, lcl_port, proto)
      kv4_any == <<U64_ZERO, kv4[2]>>
      kv4_proxy == make_v4_proxy_kv(lcl, proto)
  IN IF use_wildcard /\ clib_bihash_search_hit(h, kv4_any)
     THEN listen_session_get(U32FromU64(h[kv4_any]))
     ELSE IF clib_bihash_search_hit(h, kv4)
     THEN listen_session_get(U32FromU64(h[kv4]))
     ELSE IF clib_bihash_search_hit(h, kv4_proxy)
     THEN listen_session_get(U32FromU64(h[kv4_proxy]))
     ELSE NULL

session_lookup_listener4_i(st, lcl, lcl_port, proto, use_wildcard) ==
  LET h == st.v4_session_hash
      kv4 == make_v4_listener_kv(lcl, lcl_port, proto)
      \* kv4.key[0] = 0
      kv4_any == <<U64_ZERO, kv4[2]>>
      kv4_proxy == make_v4_proxy_kv(lcl, proto)
  IN IF clib_bihash_search_hit(h, kv4)
     THEN listen_session_get(U32FromU64(h[kv4]))
     ELSE IF use_wildcard /\ clib_bihash_search_hit(h, kv4_any)
     THEN listen_session_get(U32FromU64(h[kv4_any]))
     ELSE IF clib_bihash_search_hit(h, kv4_proxy)
     THEN listen_session_get(U32FromU64(h[kv4_proxy]))
     ELSE NULL

\* session_lookup_listener6_i that probes the address-zeroed key whatever
\* ip_wildcard says
session_lookup_listener6_i_always_any(st, lcl, lcl_port, proto, ip_wildcard) ==
  LET h == st.v6_session_hash
      kv6 == make_v6_listener_kv(lcl, lcl_port, proto)
      kv6_any == <<U64_ZERO, U64_ZERO, kv6[3], kv6[4], kv6[5], kv6[6]>>
      kv6_proxy == make_v6_proxy_kv(lcl, proto)
  IN IF clib_bihash_search_hit(h, kv6)
     THEN listen_session_get(U32FromU64(h[kv6]))
     ELSE IF clib_bihash_search_hit(h, kv6_any)
     THEN listen_session_get(U32FromU64(h[kv6_any]))
     ELSE IF clib_bihash_search_hit(h, kv6_proxy)
     THEN listen_session_get(U32FromU64(h[kv6_proxy]))
     ELSE NULL

session_lookup_listener6_i(st, lcl, lcl_port, proto, ip_wildcard) ==
  LET h == st.v6_session_hash
      kv6 == make_v6_listener_kv(lcl, lcl_port, proto)
      \* kv6.key[0] = kv6.key[1] = 0
      kv6_any == <<U64_ZERO, U64_ZERO, kv6[3], kv6[4], kv6[5], kv6[6]>>
      kv6_proxy == make_v6_proxy_kv(lcl, proto)
  IN IF clib_bihash_search_hit(h, kv6)
     THEN listen_session_get(U32FromU64(h[kv6]))
     ELSE IF ip_wildcard /\ clib_bihash_search_hit(h, kv6_any)
     THEN listen_session_get(U32FromU64(h[kv6_any]))
     ELSE IF clib_bihash_search_hit(h, kv6_proxy)
     THEN listen_session_get(U32FromU64(h[kv6_proxy]))
     ELSE NULL

session_lookup_listener4(fib_index, lcl, lcl_port, proto, use_wildcard) ==
  LET st == session_table_get_for_fib_index(fib_index_to_table_index,
                session_tables, FIB_PROTOCOL_IP4, fib_index)
  IN IF st = NULL THEN NULL
     ELSE session_lookup_listener4_i(st, lcl, lcl_port, proto, use_wildcard)

session_lookup_listener6(fib_index, lcl, lcl_port, proto, use_wildcard) ==
  LET st == session_table_get_for_fib_index(fib_index_to_table_index,
                session_tables, FIB_PROTOCOL_IP6, fib_index)
  IN IF st = NULL THEN NULL
     ELSE session_lookup_listener6_i(st, lcl, lcl_port, proto, use_wildcard)

session_lookup_listener(table_index, sep) ==
  LET st == session_table_get(session_tables, table_index)
  IN IF st = NULL THEN NULL
     ELSE IF sep.is_ip4
     THEN session_lookup_listener4_i(st, sep.ip, sep.port,
                                     sep.transport_proto, FALSE)
     ELSE session_lookup_listener6_i(st, sep.ip, sep.port,
                                     sep.transport_proto, FALSE)

session_lookup_listener_wildcard(table_index, sep) ==
  LET st == session_table_get(session_tables, table_index)
  IN IF st = NULL THEN NULL
     ELSE IF sep.is_ip4
     THEN session_lookup_listener4_i(st, sep.ip, sep.port,
                                     sep.transport_proto, TRUE)
     ELSE session_lookup_listener6_i(st, sep.ip, sep.port,
                                     sep.transport_proto, TRUE)

-----------------------------------------------------------------------------
(* Connection lookup, fast path.  `result` is the value the caller's result *)
(* variable holds before the call; the record returned holds the pointer    *)
(* returned (rv) and the variable's value after the call.                   *)

\* session_lookup_connection_wt4 without the thread comparison
session_lookup_connection_wt4_any_thread(fib_index, lcl, rmt, lcl_port, rmt_port, proto, thread_index, result) ==
  LET st == session_table_get_for_fib_index(fib_index_to_table_index,
                session_tables, FIB_PROTOCOL_IP4, fib_index)
      kv4 == make_v4_ss_kv(lcl, rmt, lcl_port, rmt_port, proto)
  IN IF st = NULL THEN [rv |-> NULL, result |-> result]
     ELSE IF clib_bihash_search_hit(st.v4_session_hash, kv4)
     THEN LET value == st.v4_session_hash[kv4]
          IN [rv |-> transport_get_connection(proto,
                       session_get(U32FromU64(Low32(value)), thread_index),
                       thread_index),
              result |-> result]
     ELSE IF clib_bihash_search_hit(st.v4_half_open_hash, kv4)
     THEN [rv |-> transport_get_half_open(proto,
                    U32FromU64(Low32(st.v4_half_open_hash[kv4]))),
           result |-> result]
     ELSE LET action_index ==
                IF st.srtg_handle # SESSION_SRTG_HANDLE_INVALID
                THEN session_rules_table_lookup(st.srtg_handle, FIB_PROTOCOL_IP4,
                       proto, lcl, rmt, lcl_port, rmt_port)
                ELSE SESSION_RULES_TABLE_INVALID_INDEX
          IN IF /\ st.srtg_handle # SESSION_SRTG_HANDLE_INVALID
                /\ session_lookup_action_index_is_valid(action_index)
             THEN IF action_index = SESSION_RULES_TABLE_ACTION_DROP
                  THEN [rv |-> NULL,
                        result |-> SESSION_LOOKUP_RESULT_FILTERED]
                  ELSE LET s == session_lookup_action_to_session(action_index,
                                    FIB_PROTOCOL_IP4, proto)
                       IN IF s # NULL
                          THEN [rv |-> transport_get_listener(proto, s),
                                result |-> result]
                          ELSE [rv |-> NULL, result |-> result]
             ELSE LET s == session_lookup_listener4_i(st, lcl, lcl_port,
                                                      proto, TRUE)
                  IN IF s # NULL
                     THEN [rv |-> transport_get_listener(proto, s),
                           result |-> result]
                     ELSE [rv |-> NULL, result |-> result]

\* session_lookup_connection_wt4 that consults the rules table before the
\* half-open table
session_lookup_connection_wt4_rules_first(fib_index, lcl, rmt, lcl_port, rmt_port, proto, thread_index, result) ==
  LET st == session_table_get_for_fib_index(fib_index_to_table_index,
                session_tables, FIB_PROTOCOL_IP4, fib_index)
      kv4 == make_v4_ss_kv(lcl, rmt, lcl_port, rmt_port, proto)
  IN IF st = NULL THEN [rv |-> NULL, result |-> result]
     ELSE IF clib_bihash_search_hit(st.v4_session_hash, kv4)
     THEN LET value == st.v4_session_hash[kv4]
          IN IF U32FromU64(Shr32(value)) # thread_index
             THEN [rv |-> NULL, result |-> SESSION_LOOKUP_RESULT_WRONG_THREAD]
             ELSE [rv |-> transport_get_connection(proto,
                            session_get(U32FromU64(Low32(value)), thread_index),
                            thread_index),
                   result |-> result]
     ELSE LET action_index ==
                IF st.srtg_handle # SESSION_SRTG_HANDLE_INVALID
                THEN session_rules_table_lookup(st.srtg_handle, FIB_PROTOCOL_IP4,
                       proto, lcl, rmt, lcl_port, rmt_port)
                ELSE SESSION_RULES_TABLE_INVALID_INDEX
          IN IF /\ st.srtg_handle # SESSION_SRTG_HANDLE_INVALID
                /\ session_lookup_action_index_is_valid(action_index)
             THEN IF action_index = SESSION_RULES_TABLE_ACTION_DROP
                  THEN [rv |-> NULL,
                        result |-> SESSION_LOOKUP_RESULT_FILTERED]
                  ELSE LET s == session_lookup_action_to_session(action_index,
                                    FIB_PROTOCOL_IP4, proto)
                       IN IF s # NULL
                          THEN [rv |-> transport_get_listener(proto, s),
                                result |-> result]
                          ELSE [rv |-> NULL, result |-> result]
             ELSE IF clib_bihash_search_hit(st.v4_half_open_hash, kv4)
             THEN [rv |-> transport_get_half_open(proto,
                            U32FromU64(Low32(st.v4_half_open_hash[kv4]))),
                   result |-> result]
             ELSE LET s == session_lookup_listener4_i(st, lcl, lcl_port,
                                                      proto, TRUE)
                  IN IF s # NULL
                     THEN [rv |-> transport_get_listener(proto, s),
                           result |-> result]
                     ELSE [rv |-> NULL, result |-> result]

session_lookup_connection_wt4(fib_index, lcl, rmt, lcl_port, rmt_port, proto, thread_index, result) ==
  LET st == session_table_get_for_fib_index(fib_index_to_table_index,
                session_tables, FIB_PROTOCOL_IP4, fib_index)
      kv4 == make_v4_ss_kv(lcl, rmt, lcl_port, rmt_port, proto)
  IN IF st = NULL THEN [rv |-> NULL, result |-> result]
     ELSE IF clib_bihash_search_hit(st.v4_session_hash, kv4)
     THEN LET value == st.v4_session_hash[kv4]
          IN IF U32FromU64(Shr32(value)) # thread_index
             THEN [rv |-> NULL, result |-> SESSION_LOOKUP_RESULT_WRONG_THREAD]
             ELSE [rv |-> transport_get_connection(proto,
                            session_get(U32FromU64(Low32(value)), thread_index),
                            thread_index),
                   result |-> result]
     ELSE IF clib_bihash_search_hit(st.v4_half_open_hash, kv4)
     THEN [rv |-> transport_get_half_open(proto,
                    U32FromU64(Low32(st.v4_half_open_hash[kv4]))),
           result |-> result]
     ELSE LET action_index ==
                IF st.srtg_handle # SESSION_SRTG_HANDLE_INVALID
                THEN session_rules_table_lookup(st.srtg_handle, FIB_PROTOCOL_IP4,
                       proto, lcl, rmt, lcl_port, rmt_port)
                ELSE SESSION_RULES_TABLE_INVALID_INDEX
          IN IF /\ st.srtg_handle # SESSION_SRTG_HANDLE_INVALID
                /\ session_lookup_action_index_is_valid(action_index)
             THEN IF action_index = SESSION_RULES_TABLE_ACTION_DROP
                  THEN [rv |-> NULL,
                        result |-> SESSION_LOOKUP_RESULT_FILTERED]
                  ELSE LET s == session_lookup_action_to_session(action_index,
                                    FIB_PROTOCOL_IP4, proto)
                       IN IF s # NULL
                          THEN [rv |-> transport_get_listener(proto, s),
                                result |-> result]
                          ELSE [rv |-> NULL, result |-> result]
             ELSE LET s == session_lookup_listener4_i(st, lcl, lcl_port,
                                                      proto, TRUE)
                  IN IF s # NULL
                     THEN [rv |-> transport_get_listener(proto, s),
                           result |-> result]
                     ELSE [rv |-> NULL, result |-> result]

\* session_lookup_connection_wt6 that searches the listeners before it
\* consults the rules table
session_lookup_connection_wt6_listener_first(fib_index, lcl, rmt, lcl_port, rmt_port, proto, thread_index, result) ==
  LET st == session_table_get_for_fib_index(fib_index_to_table_index,
                session_tables, FIB_PROTOCOL_IP6, fib_index)
      kv6 == make_v6_ss_kv(lcl, rmt, lcl_port, rmt_port, proto)
  IN IF st = NULL THEN [rv |-> NULL, result |-> result]
     ELSE IF clib_bihash_search_hit(st.v6_session_hash, kv6)
     THEN LET value == st.v6_session_hash[kv6]
          IN IF U32FromU64(Shr32(value)) # thread_index
             THEN [rv |-> NULL, result |-> SESSION_LOOKUP_RESULT_WRONG_THREAD]
             ELSE [rv |-> transport_get_connection(proto,
                            session_get(U32FromU64(Low32(value)), thread_index),
                            thread_index),
                   result |-> result]
     ELSE IF clib_bihash_search_hit(st.v6_half_open_hash, kv6)
     THEN [rv |-> transport_get_half_open(proto,
                    U32FromU64(Low32(st.v6_half_open_hash[kv6]))),
           result |-> result]
     ELSE LET l == session_lookup_listener6_i(st, lcl, lcl_port, proto, TRUE)
              action_index ==
                IF st.srtg_handle # SESSION_SRTG_HANDLE_INVALID
                THEN session_rules_table_lookup(st.srtg_handle, FIB_PROTOCOL_IP6,
                       proto, lcl, rmt, lcl_port, rmt_port)
                ELSE SESSION_RULES_TABLE_INVALID_INDEX
          IN IF l # NULL
             THEN [rv |-> transport_get_listener(proto, l), result |-> result]
             ELSE IF /\ st.srtg_handle # SESSION_SRTG_HANDLE_INVALID
                     /\ session_lookup_action_index_is_valid(action_index)
             THEN IF action_index = SESSION_RULES_TABLE_ACTION_DROP
                  THEN [rv |-> NULL,
                        result |-> SESSION_LOOKUP_RESULT_FILTERED]
                  ELSE LET s == session_lookup_action_to_session(action_index,
                                    FIB_PROTOCOL_IP6, proto)
                       IN IF s # NULL
                          THEN [rv |-> transport_get_listener(proto, s),
                                result |-> result]
                          ELSE [rv |-> NULL, result |-> result]
             ELSE [rv |-> NULL, result |-> result]

session_lookup_connection_wt6(fib_index, lcl, rmt, lcl_port, rmt_port, proto, thread_index, result) ==
  LET st == session_table_get_for_fib_index(fib_index_to_table_index,
                session_tables, FIB_PROTOCOL_IP6, fib_index)
      kv6 == make_v6_ss_kv(lcl, rmt, lcl_port, rmt_port, proto)
  IN IF st = NULL THEN [rv |-> NULL, result |-> result]
     ELSE IF clib_bihash_search_hit(st.v6_session_hash, kv6)
     THEN LET value == st.v6_session_hash[kv6]
          IN IF U32FromU64(Shr32(value)) # thread_index
             THEN [rv |-> NULL, result |-> SESSION_LOOKUP_RESULT_WRONG_THREAD]
             ELSE [rv |-> transport_get_connection(proto,
                            session_get(U32FromU64(Low32(value)), thread_index),
                            thread_index),
                   result |-> result]
     ELSE IF clib_bihash_search_hit(st.v6_half_open_hash, kv6)
     THEN [rv |-> transport_get_half_open(proto,
                    U32FromU64(Low32(st.v6_half_open_hash[kv6]))),
           result |-> result]
     ELSE LET action_index ==
                IF st.srtg_handle # SESSION_SRTG_HANDLE_INVALID
                THEN session_rules_table_lookup(st.srtg_handle, FIB_PROTOCOL_IP6,
                       proto, lcl, rmt, lcl_port, rmt_port)
                ELSE SESSION_RULES_TABLE_INVALID_INDEX
          IN IF /\ st.srtg_handle # SESSION_SRTG_HANDLE_INVALID
                /\ session_lookup_action_index_is_valid(action_index)
             THEN IF action_index = SESSION_RULES_TABLE_ACTION_DROP
                  THEN [rv |-> NULL,
                        result |-> SESSION_LOOKUP_RESULT_FILTERED]
                  ELSE LET s == session_lookup_action_to_session(action_index,
                                    FIB_PROTOCOL_IP6, proto)
                       IN IF s # NULL
                          THEN [rv |-> transport_get_listener(proto, s),
                                result |-> result]
                          ELSE [rv |-> NULL, result |-> result]
             ELSE LET s == session_lookup_listener6_i(st, lcl, lcl_port,
                                                      proto, TRUE)
                  IN IF s # NULL
                     THEN [rv |-> transport_get_listener(proto, s),
                           result |-> result]
                     ELSE [rv |-> NULL, result |-> result]

-----------------------------------------------------------------------------
(* Lookups that are not thread-checked *)

\* The rules and listener stages in which an application without a listener
\* falls through to the listener search
ConnectionAfterHashes_fall_through(st, fib_proto, lcl, rmt, lcl_port, rmt_port, proto) ==
  LET action_index ==
        IF st.srtg_handle # SESSION_SRTG_HANDLE_INVALID
        THEN session_rules_table_lookup(st.srtg_handle, fib_proto, proto, lcl,
                                        rmt, lcl_port, rmt_port)
        ELSE SESSION_RULES_TABLE_INVALID_INDEX
      rs == IF /\ st.srtg_handle # SESSION_SRTG_HANDLE_INVALID
               /\ session_lookup_action_index_is_valid(action_index)
               /\ action_index # SESSION_RULES_TABLE_ACTION_DROP
            THEN session_lookup_action_to_session(action_index, fib_proto,
                                                  proto)
            ELSE NULL
      ls == IF fib_proto = FIB_PROTOCOL_IP4
            THEN session_lookup_listener4_i(st, lcl, lcl_port, proto, TRUE)
            ELSE session_lookup_listener6_i(st, lcl, lcl_port, proto, TRUE)
  IN IF /\ st.srtg_handle # SESSION_SRTG_HANDLE_INVALID
        /\ action_index = SESSION_RULES_TABLE_ACTION_DROP
     THEN NULL
     ELSE IF rs # NULL THEN transport_get_listener(proto, rs)
     ELSE IF ls # NULL THEN transport_get_listener(proto, ls)
     ELSE NULL

\* The rules stage and the listener stage that session_lookup_connection4/6
\* run after both hashes miss
ConnectionAfterHashes(st, fib_proto, lcl, rmt, lcl_port, rmt_port, proto) ==
  LET action_index ==
        IF st.srtg_handle # SESSION_SRTG_HANDLE_INVALID
        THEN session_rules_table_lookup(st.srtg_handle, fib_proto, proto, lcl,
                                        rmt, lcl_port, rmt_port)
        ELSE SESSION_RULES_TABLE_INVALID_INDEX
  IN IF /\ st.srtg_handle # SESSION_SRTG_HANDLE_INVALID
        /\ session_lookup_action_index_is_valid(action_index)
     THEN IF action_index = SESSION_RULES_TABLE_ACTION_DROP THEN NULL
          ELSE LET s == session_lookup_action_to_session(action_index,
                                                         fib_proto, proto)
               IN IF s # NULL THEN transport_get_listener(proto, s) ELSE NULL
     ELSE LET s == IF fib_proto = FIB_PROTOCOL_IP4
                   THEN session_lookup_listener4_i(st, lcl, lcl_port, proto,
                                                   TRUE)
                   ELSE session_lookup_listener6_i(st, lcl, lcl_port, proto,
                                                   TRUE)
          IN IF s # NULL THEN transport_get_listener(proto, s) ELSE NULL

\* session_lookup_connection4 that never tries the half-open hash
session_lookup_connection4_no_half_open(fib_index, lcl, rmt, lcl_port, rmt_port, proto) ==
  LET st == session_table_get_for_fib_index(fib_index_to_table_index,
                session_tables, FIB_PROTOCOL_IP4, fib_index)
      kv4 == make_v4_ss_kv(lcl, rmt, lcl_port, rmt_port, proto)
  IN IF st = NULL THEN NULL
     ELSE IF clib_bihash_search_hit(st.v4_session_hash, kv4)
     THEN LET s == session_get_from_handle(st.v4_session_hash[kv4])
          IN transport_get_connection(proto, s, s.thread_index)
     ELSE ConnectionAfterHashes(st, FIB_PROTOCOL_IP4, lcl, rmt, lcl_port,
                                rmt_port, proto)

session_lookup_connection4(fib_index, lcl, rmt, lcl_port, rmt_port, proto) ==
  LET st == session_table_get_for_fib_index(fib_index_to_table_index,
                session_tables, FIB_PROTOCOL_IP4, fib_index)
      kv4 == make_v4_ss_kv(lcl, rmt, lcl_port, rmt_port, proto)
  IN IF st = NULL THEN NULL
     ELSE IF clib_bihash_search_hit(st.v4_session_hash, kv4)
     THEN LET s == session_get_from_handle(st.v4_session_hash[kv4])
          IN transport_get_connection(proto, s, s.thread_index)
     ELSE IF clib_bihash_search_hit(st.v4_half_open_hash, kv4)
     THEN transport_get_half_open(proto,
            U32FromU64(Low32(st.v4_half_open_hash[kv4])))
     ELSE ConnectionAfterHashes(st, FIB_PROTOCOL_IP4, lcl, rmt, lcl_port,
                                rmt_port, proto)

session_lookup_connection6(fib_index, lcl, rmt, lcl_port, rmt_port, proto) ==
  LET st == session_table_get_for_fib_index(fib_index_to_table_index,
                session_tables, FIB_PROTOCOL_IP6, fib_index)
      kv6 == make_v6_ss_kv(lcl, rmt, lcl_port, rmt_port, proto)
  IN IF st = NULL THEN NULL
     ELSE IF clib_bihash_search_hit(st.v6_session_hash, kv6)
     THEN LET s == session_get_from_handle(st.v6_session_hash[kv6])
          IN transport_get_connection(proto, s, s.thread_index)
     ELSE IF clib_bihash_search_hit(st.v6_half_open_hash, kv6)
     THEN transport_get_half_open(proto,
            U32FromU64(Low32(st.v6_half_open_hash[kv6])))
     ELSE ConnectionAfterHashes(st, FIB_PROTOCOL_IP6, lcl, rmt, lcl_port,
                                rmt_port, proto)

session_lookup_connection(fib_index, lcl, rmt, lcl_port, rmt_port, proto, is_ip4) ==
  IF is_ip4
  THEN session_lookup_connection4(fib_index, lcl, rmt, lcl_port, rmt_port,
                                  proto)
  ELSE session_lookup_connection6(fib_index, lcl, rmt, lcl_port, rmt_port,
                                  proto)

\* The rules stage and the listener stage of session_lookup_safe4/6, which
\* return sessions
SafeAfterHash(st, fib_proto, lcl, rmt, lcl_port, rmt_port, proto) ==
  LET action_index ==
        IF st.srtg_handle # SESSION_SRTG_HANDLE_INVALID
        THEN session_rules_table_lookup(st.srtg_handle, fib_proto, proto, lcl,
                                        rmt, lcl_port, rmt_port)
        ELSE SESSION_RULES_TABLE_INVALID_INDEX
  IN IF /\ st.srtg_handle # SESSION_SRTG_HANDLE_INVALID
        /\ session_lookup_action_index_is_valid(action_index)
     THEN IF action_index = SESSION_RULES_TABLE_ACTION_DROP THEN NULL
          ELSE session_lookup_action_to_session(action_index, fib_proto, proto)
     ELSE IF fib_proto = FIB_PROTOCOL_IP4
          THEN session_lookup_listener4_i(st, lcl, lcl_port, proto, TRUE)
          ELSE session_lookup_listener6_i(st, lcl, lcl_port, proto, TRUE)

\* session_lookup_safe4 that tries the half-open hash as the fast path does
session_lookup_safe4_half_open(fib_index, lcl, rmt, lcl_port, rmt_port, proto) ==
  LET st == session_table_get_for_fib_index(fib_index_to_table_index,
                session_tables, FIB_PROTOCOL_IP4, fib_index)
      kv4 == make_v4_ss_kv(lcl, rmt, lcl_port, rmt_port, proto)
  IN IF st = NULL THEN NULL
     ELSE IF clib_bihash_search_hit(st.v4_session_hash, kv4)
     THEN session_get_from_handle(st.v4_session_hash[kv4])
     ELSE IF clib_bihash_search_hit(st.v4_half_open_hash, kv4)
     THEN transport_get_half_open(proto,
            U32FromU64(Low32(st.v4_half_open_hash[kv4])))
     ELSE SafeAfterHash(st, FIB_PROTOCOL_IP4, lcl, rmt, lcl_port, rmt_port,
                        proto)

session_lookup_safe4(fib_index, lcl, rmt, lcl_port, rmt_port, proto) ==
  LET st == session_table_get_for_fib_index(fib_index_to_table_index,
                session_tables, FIB_PROTOCOL_IP4, fib_index)
      kv4 == make_v4_ss_kv(lcl, rmt, lcl_port, rmt_port, proto)
  IN IF st = NULL THEN NULL
     ELSE IF clib_bihash_search_hit(st.v4_session_hash, kv4)
     THEN session_get_from_handle(st.v4_session_hash[kv4])
     ELSE SafeAfterHash(st, FIB_PROTOCOL_IP4, lcl, rmt, lcl_port, rmt_port,
                        proto)

session_lookup_safe6(fib_index, lcl, rmt, lcl_port, rmt_port, proto) ==
  LET st == session_table_get_for_fib_index(fib_index_to_table_index,
                session_tables, FIB_PROTOCOL_IP6, fib_index)
      kv6 == make_v6_ss_kv(lcl, rmt, lcl_port, rmt_port, proto)
  IN IF st = NULL THEN NULL
     ELSE IF clib_bihash_search_hit(st.v6_session_hash, kv6)
     THEN session_get_from_handle(st.v6_session_hash[kv6])
     ELSE SafeAfterHash(st, FIB_PROTOCOL_IP6, lcl, rmt, lcl_port, rmt_port,
                        proto)

\* session_lookup_6tuple that goes on to the rules and the listeners on a miss
session_lookup_6tuple_listener(fib_index, lcl, rmt, lcl_port, rmt_port, proto, is_ip4) ==
  LET fib_proto == IF is_ip4 THEN FIB_PROTOCOL_IP4 ELSE FIB_PROTOCOL_IP6
      st == session_table_get_for_fib_index(fib_index_to_table_index,
                session_tables, fib_proto, fib_index)
      kv == IF is_ip4 THEN make_v4_ss_kv(lcl, rmt, lcl_port, rmt_port, proto)
            ELSE make_v6_ss_kv(lcl, rmt, lcl_port, rmt_port, proto)
      session_hash == IF is_ip4 THEN st.v4_session_hash
                      ELSE st.v6_session_hash
      half_open_hash == IF is_ip4 THEN st.v4_half_open_hash
                        ELSE st.v6_half_open_hash
  IN IF st = NULL THEN NULL
     ELSE IF clib_bihash_search_hit(session_hash, kv)
     THEN LET s == session_get_from_handle(session_hash[kv])
          IN transport_get_connection(proto, s, s.thread_index)
     ELSE IF clib_bihash_search_hit(half_open_hash, kv)
     THEN transport_get_half_open(proto, U32FromU64(Low32(half_open_hash[kv])))
     ELSE ConnectionAfterHashes(st, fib_proto, lcl, rmt, lcl_port, rmt_port,
                                proto)

\* session_lookup_6tuple: established, then half-open, no rules, no listener
session_lookup_6tuple(fib_index, lcl, rmt, lcl_port, rmt_port, proto, is_ip4) ==
  LET fib_proto == IF is_ip4 THEN FIB_PROTOCOL_IP4 ELSE FIB_PROTOCOL_IP6
      st == session_table_get_for_fib_index(fib_index_to_table_index,
                session_tables, fib_proto, fib_index)
      kv == IF is_ip4 THEN make_v4_ss_kv(lcl, rmt, lcl_port, rmt_port, proto)
            ELSE make_v6_ss_kv(lcl, rmt, lcl_port, rmt_port, proto)
      session_hash == IF is_ip4 THEN st.v4_session_hash
                      ELSE st.v6_session_hash
      half_open_hash == IF is_ip4 THEN st.v4_half_open_hash
                        ELSE st.v6_half_open_hash
  IN IF st = NULL THEN NULL
     ELSE IF clib_bihash_search_hit(session_hash, kv)
     THEN LET s == session_get_from_handle(session_hash[kv])
          IN transport_get_connection(proto, s, s.thread_index)
     ELSE IF clib_bihash_search_hit(half_open_hash, kv)
     THEN transport_get_half_open(proto, U32FromU64(Low32(half_open_hash[kv])))
     ELSE NULL

\* session_lookup_half_open_handle that reports a missing table as handle 0
session_lookup_half_open_handle_zero(tc) ==
  LET st == session_table_get_for_fib_index(fib_index_to_table_index,
                session_tables, transport_connection_fib_proto(tc),
                tc.fib_index)
  IN IF st = NULL THEN U64_ZERO
     ELSE IF tc.is_ip4
     THEN LET kv4 == make_v4_ss_kv_from_tc(tc)
          IN IF clib_bihash_search_hit(st.v4_half_open_hash, kv4)
             THEN st.v4_half_open_hash[kv4]
             ELSE HALF_OPEN_LOOKUP_INVALID_VALUE
     ELSE LET kv6 == make_v6_ss_kv_from_tc(tc)
          IN IF clib_bihash_search_hit(st.v6_half_open_hash, kv6)
             THEN st.v6_half_open_hash[kv6]
             ELSE HALF_OPEN_LOOKUP_INVALID_VALUE

\* session_lookup_half_open_handle: the value stored, or the invalid value
session_lookup_half_open_handle(tc) ==
  LET st == session_table_get_for_fib_index(fib_index_to_table_index,
                session_tables, transport_connection_fib_proto(tc),
                tc.fib_index)
  IN IF st = NULL THEN HALF_OPEN_LOOKUP_INVALID_VALUE
     ELSE IF tc.is_ip4
     THEN LET kv4 == make_v4_ss_kv_from_tc(tc)
          IN IF clib_bihash_search_hit(st.v4_half_open_hash, kv4)
             THEN st.v4_half_open_hash[kv4]
             ELSE HALF_OPEN_LOOKUP_INVALID_VALUE
     ELSE LET kv6 == make_v6_ss_kv_from_tc(tc)
          IN IF clib_bihash_search_hit(st.v6_half_open_hash, kv6)
             THEN st.v6_half_open_hash[kv6]
             ELSE HALF_OPEN_LOOKUP_INVALID_VALUE

-----------------------------------------------------------------------------
(* Listener of an endpoint *)

\* session_lookup_endpoint_listener that consults the rules before the hash
session_lookup_endpoint_listener_rules_first(table_index, sep, use_rules) ==
  LET st == session_table_get(session_tables, table_index)
      h == IF sep.is_ip4 THEN st.v4_session_hash ELSE st.v6_session_hash
      kv == IF sep.is_ip4
            THEN make_v4_listener_kv(sep.ip, sep.port, sep.transport_proto)
            ELSE make_v6_listener_kv(sep.ip, sep.port, sep.transport_proto)
      ai == session_rules_table_lookup(st.srtg_handle,
              IF sep.is_ip4 THEN FIB_PROTOCOL_IP4 ELSE FIB_PROTOCOL_IP6,
              sep.transport_proto,
              IF sep.is_ip4 THEN U32_ZERO ELSE <<U64_ZERO, U64_ZERO>>,
              sep.ip, 0, sep.port)
  IN IF st = NULL THEN SESSION_INVALID_HANDLE
     ELSE IF /\ use_rules
             /\ st.srtg_handle # SESSION_SRTG_HANDLE_INVALID
             /\ session_lookup_action_index_is_valid(ai)
     THEN session_lookup_action_to_handle(ai)
     ELSE IF clib_bihash_search_hit(h, kv) THEN h[kv]
     ELSE SESSION_INVALID_HANDLE

\* session_lookup_endpoint_listener: the exact listener key, then, with
\* use_rules, the rules of the table
session_lookup_endpoint_listener(table_index, sep, use_rules) ==
  LET st == session_table_get(session_tables, table_index)
  IN IF st = NULL THEN SESSION_INVALID_HANDLE
     ELSE IF sep.is_ip4
     THEN LET kv4 == make_v4_listener_kv(sep.ip, sep.port, sep.transport_proto)
          IN IF clib_bihash_search_hit(st.v4_session_hash, kv4)
             THEN st.v4_session_hash[kv4]
             ELSE IF use_rules
             THEN IF st.srtg_handle = SESSION_SRTG_HANDLE_INVALID
                  THEN SESSION_INVALID_HANDLE
                  ELSE LET ai == session_rules_table_lookup(st.srtg_handle,
                                   FIB_PROTOCOL_IP4, sep.transport_proto,
                                   U32_ZERO, sep.ip, 0, sep.port)
                       IN IF session_lookup_action_index_is_valid(ai)
                          THEN session_lookup_action_to_handle(ai)
                          ELSE SESSION_INVALID_HANDLE
             ELSE SESSION_INVALID_HANDLE
     ELSE LET kv6 == make_v6_listener_kv(sep.ip, sep.port, sep.transport_proto)
          IN IF clib_bihash_search_hit(st.v6_session_hash, kv6)
             THEN st.v6_session_hash[kv6]
             ELSE IF use_rules
             THEN IF st.srtg_handle = SESSION_SRTG_HANDLE_INVALID
                  THEN SESSION_INVALID_HANDLE
                  ELSE LET ai == session_rules_table_lookup(st.srtg_handle,
                                   FIB_PROTOCOL_IP6, sep.transport_proto,
                                   <<U64_ZERO, U64_ZERO>>, sep.ip, 0, sep.port)
                       IN IF session_lookup_action_index_is_valid(ai)
                          THEN session_lookup_action_to_handle(ai)
                          ELSE SESSION_INVALID_HANDLE
             ELSE SESSION_INVALID_HANDLE

-----------------------------------------------------------------------------
(* Local endpoint lookup *)

\* ip4_is_local_host: the first byte of the address is 127
ip4_is_local_host(ip4) == ip4[1] % 256 = 127

\* ip6_is_local_host: the address is ::1
ip6_is_local_host(ip6) == ip6[1] = U64_ZERO /\ ip6[2] = <<0, 0, 0, 256>>

\* session_lookup_local_endpoint: rules of the table, then the listener key,
\* which is masked in place: kv.key[0] (and key[1] for IPv6) zeroed, searched
\* only for a local host address, then kv.key[1] (key[4], key[5]) zeroed
session_lookup_local_endpoint(table_index, sep) ==
  LET st == session_table_get(session_tables, table_index)
  IN IF st = NULL THEN SESSION_INVALID_HANDLE
     ELSE IF sep.is_ip4
     THEN LET ai == IF st.srtg_handle # SESSION_SRTG_HANDLE_INVALID
                    THEN session_rules_table_lookup(st.srtg_handle,
                           FIB_PROTOCOL_IP4, sep.transport_proto, U32_ZERO,
                           sep.ip, 0, sep.port)
                    ELSE SESSION_RULES_TABLE_INVALID_INDEX
              kv4 == make_v4_listener_kv(sep.ip, sep.port, sep.transport_proto)
              kv4_ip == [kv4 EXCEPT ![1] = U64_ZERO]
              kv4_port == [kv4_ip EXCEPT ![2] = U64_ZERO]
          IN IF /\ st.srtg_handle # SESSION_SRTG_HANDLE_INVALID
                /\ session_lookup_action_index_is_valid(ai)
             THEN session_lookup_action_to_handle(ai)
             ELSE IF clib_bihash_search_hit(st.v4_session_hash, kv4)
             THEN st.v4_session_hash[kv4]
             ELSE IF /\ ip4_is_local_host(sep.ip)
                     /\ clib_bihash_search_hit(st.v4_session_hash, kv4_ip)
             THEN st.v4_session_hash[kv4_ip]
             ELSE IF clib_bihash_search_hit(st.v4_session_hash, kv4_port)
             THEN st.v4_session_hash[kv4_port]
             ELSE SESSION_INVALID_HANDLE
     ELSE LET ai == IF st.srtg_handle # SESSION_SRTG_HANDLE_INVALID
                    THEN session_rules_table_lookup(st.srtg_handle,
                           FIB_PROTOCOL_IP6, sep.transport_proto,
                           <<U64_ZERO, U64_ZERO>>,
                           sep.ip, 0, sep.port)
                    ELSE SESSION_RULES_TABLE_INVALID_INDEX
              kv6 == make_v6_listener_kv(sep.ip, sep.port, sep.transport_proto)
              kv6_ip == [kv6 EXCEPT ![1] = U64_ZERO, ![2] = U64_ZERO]
              kv6_port == [kv6_ip EXCEPT ![5] = U64_ZERO, ![6] = U64_ZERO]
          IN IF /\ st.srtg_handle # SESSION_SRTG_HANDLE_INVALID
                /\ session_lookup_action_index_is_valid(ai)
             THEN session_lookup_action_to_handle(ai)
             ELSE IF clib_bihash_search_hit(st.v6_session_hash, kv6)
             THEN st.v6_session_hash[kv6]
             ELSE IF /\ ip6_is_local_host(sep.ip)
                     /\ clib_bihash_search_hit(st.v6_session_hash, kv6_ip)
             THEN st.v6_session_hash[kv6_ip]
             ELSE IF clib_bihash_search_hit(st.v6_session_hash, kv6_port)
             THEN st.v6_session_hash[kv6_port]
             ELSE SESSION_INVALID_HANDLE

-----------------------------------------------------------------------------
(* Bounds and input sets *)

\* Entries (hash entries and rules) the tables hold together
MaxEntries == 2
\* Entries are added under fib indices 0..MaxFibIndex
MaxFibIndex == 0

FibIndices == 0..MaxFibIndex
\* Lookups and deletes also name the first fib index that has no table
LookupFibIndices == 0..(MaxFibIndex + 1)
TransportProtos == {TRANSPORT_PROTO_TCP, TRANSPORT_PROTO_UDP}

\* 0.0.0.0, 10.1.1.1 and 10.0.0.2 as ip4_address_t.as_u32
IP4_ANY == U32_ZERO
IP4_LCL == <<266, 257>>
IP4_RMT == <<10, 512>>
\* ::, 2001:db8::1 and 2001:db8::2 as ip6_address_t.as_u64[2]
IP6_ANY == <<U64_ZERO, U64_ZERO>>
IP6_LCL == << <<288, 47117, 0, 0>>, <<0, 0, 0, 256>> >>
IP6_RMT == << <<288, 47117, 0, 0>>, <<0, 0, 0, 512>> >>

AnyAddr(is_ip4) == IF is_ip4 THEN IP4_ANY ELSE IP6_ANY
LclAddr(is_ip4) == IF is_ip4 THEN IP4_LCL ELSE IP6_LCL
RmtAddr(is_ip4) == IF is_ip4 THEN IP4_RMT ELSE IP6_RMT
AddrLen(is_ip4) == IF is_ip4 THEN 32 ELSE 128

LclPorts == {0, 80}
RmtPorts == {0, 43210}
ThreadIndices == {U32(1), U32(2)}

\* session handle of session `index` of thread `thread`
SessionHandle(thread, index) ==
  Or64(Shl32(U64FromU32(thread)), U64FromU32(index))

\* Established sessions: session 5 of thread 1 and session 6 of thread 2
SessionHandles ==
  {SessionHandle(U32(1), U32(5)), SessionHandle(U32(2), U32(6))}
\* Half-open connection 7
HalfOpenHandles == {U64FromU32(U32(7))}
\* Every listener is a session of its own: index 16 + 8 * is_any + 4 * port0
\* + proto
ListenerHandle(sep) ==
  U64FromU32(U32(16 + (IF sep.ip = AnyAddr(sep.is_ip4) THEN 8 ELSE 0)
                    + (IF sep.port = 0 THEN 4 ELSE 0) + sep.transport_proto))

Connection(is_ip4, fib_index, lcl, rmt, lcl_port, rmt_port, proto) ==
  [is_ip4 |-> is_ip4, fib_index |-> fib_index, lcl_ip |-> lcl, rmt_ip |-> rmt,
   lcl_port |-> lcl_port, rmt_port |-> rmt_port, proto |-> proto]

\* Connections that get established or half-open: 10.1.1.1:80 <-> 10.0.0.2:43210
OpenConnections(is_ip4) ==
  {Connection(is_ip4, fib_index, LclAddr(is_ip4), RmtAddr(is_ip4), 80, 43210,
              proto) :
     fib_index \in FibIndices, proto \in TransportProtos}

\* The same connections as they are deleted, under every fib index
CloseConnections(is_ip4) ==
  {[tc EXCEPT !.fib_index = fib_index] :
     tc \in OpenConnections(is_ip4), fib_index \in LookupFibIndices}

\* Tuples looked up: every mix of zero and non-zero fields, the remote address
\* and port zero together, and the open connections under every fib index
LookupConnections(is_ip4) ==
  UNION { {Connection(is_ip4, fib_index,
                      IF lcl_any THEN AnyAddr(is_ip4) ELSE LclAddr(is_ip4),
                      AnyAddr(is_ip4), lcl_port, 0, proto),
           Connection(is_ip4, fib_index,
                      IF lcl_any THEN AnyAddr(is_ip4) ELSE LclAddr(is_ip4),
                      RmtAddr(is_ip4), lcl_port, 43210, proto)} :
          fib_index \in FibIndices, lcl_any \in BOOLEAN,
          lcl_port \in LclPorts, proto \in TransportProtos }
  \cup CloseConnections(is_ip4)

SessionEndpoint(is_ip4, fib_index, ip, port, proto) ==
  [is_ip4 |-> is_ip4, fib_index |-> fib_index, ip |-> ip, port |-> port,
   transport_proto |-> proto]

\* Endpoints bound and looked up: exact, any-address, zero-port and
\* any-address zero-port forms
SessionEndpoints(is_ip4) ==
  {SessionEndpoint(is_ip4, 0,
                   IF lcl_any THEN AnyAddr(is_ip4) ELSE LclAddr(is_ip4),
                   port, proto) :
     lcl_any \in BOOLEAN, port \in LclPorts, proto \in TransportProtos}

\* Endpoints looked up by fib index: the same forms, and 10.1.1.1:80
\* (2001:db8::1 port 80) under every fib index
LookupEndpoints(is_ip4) ==
  {[sep EXCEPT !.fib_index = fib_index] :
     sep \in SessionEndpoints(is_ip4), fib_index \in FibIndices}
  \cup {SessionEndpoint(is_ip4, fib_index, LclAddr(is_ip4), 80, proto) :
          fib_index \in LookupFibIndices, proto \in TransportProtos}

\* The hashes of a table that its init sets up for the address family
TableHasFamily(st, is_ip4) ==
  \/ st.active_fib_proto = FIB_PROTOCOL_MAX
  \/ st.active_fib_proto = (IF is_ip4 THEN FIB_PROTOCOL_IP4
                            ELSE FIB_PROTOCOL_IP6)

\* Tables of the fib registry (not the namespaces' local tables)
FibTableIndices == {i \in DOMAIN session_tables : ~session_tables[i].is_local}

TableEntries(st) ==
  Cardinality(DOMAIN st.v4_session_hash)
  + Cardinality(DOMAIN st.v4_half_open_hash)
  + Cardinality(DOMAIN st.v6_session_hash)
  + Cardinality(DOMAIN st.v6_half_open_hash)

RECURSIVE SumOver(_, _)
SumOver(f, S) ==
  IF S = {} THEN 0
  ELSE LET x == CHOOSE y \in S : TRUE IN f[x] + SumOver(f, S \ {x})

EntryCount ==
  SumOver([i \in DOMAIN session_tables |-> TableEntries(session_tables[i])],
          DOMAIN session_tables)
  + SumOver([hd \in DOMAIN srtg |->
               Cardinality(srtg[hd][FIB_PROTOCOL_IP4])
               + Cardinality(srtg[hd][FIB_PROTOCOL_IP6])], DOMAIN srtg)

\* Room for one more entry under `key`
HasRoom(h, key) == key \in DOMAIN h \/ EntryCount < MaxEntries

-----------------------------------------------------------------------------
(* Entry mutation.  Every API call runs to completion and leaves its        *)
(* arguments and return value in `call` until the caller goes on.           *)

session_lookup_add_connection(tc, value) ==
  LET a == session_table_get_or_alloc_for_connection(fib_index_to_table_index,
                                                     session_tables, tc)
      st == a.pool[a.table_index]
  IN /\ call = Idle
     /\ fib_index_to_table_index' = a.reg
     /\ IF tc.is_ip4
        THEN LET kv4 == make_v4_ss_kv_from_tc(tc)
             IN /\ HasRoom(st.v4_session_hash, kv4)
                /\ session_tables' =
                     [a.pool EXCEPT ![a.table_index].v4_session_hash =
                        clib_bihash_add(@, kv4, value)]
                /\ call' = [op |-> "session_lookup_add_connection", tc |-> tc,
                            value |-> value,
                            rv |-> clib_bihash_add_del_rv(st.v4_session_hash,
                                                          kv4, TRUE)]
        ELSE LET kv6 == make_v6_ss_kv_from_tc(tc)
             IN /\ HasRoom(st.v6_session_hash, kv6)
                /\ session_tables' =
                     [a.pool EXCEPT ![a.table_index].v6_session_hash =
                        clib_bihash_add(@, kv6, value)]
                /\ call' = [op |-> "session_lookup_add_connection", tc |-> tc,
                            value |-> value,
                            rv |-> clib_bihash_add_del_rv(st.v6_session_hash,
                                                          kv6, TRUE)]
     /\ UNCHANGED <<srtg, keyVars, processVars, lockVars, allocVars>>

\* session_lookup_del_connection that reports success and deletes nothing
session_lookup_del_connection_keep(tc) ==
  /\ call = Idle
  /\ call' = [op |-> "session_lookup_del_connection", tc |-> tc, rv |-> 0]
  /\ UNCHANGED <<fib_index_to_table_index, session_tables, srtg,
                 keyVars, processVars, lockVars, allocVars>>

session_lookup_del_connection(tc) ==
  LET table_index == session_table_get_for_connection(fib_index_to_table_index,
                                                      tc)
      st == session_table_get(session_tables, table_index)
  IN /\ call = Idle
     /\ IF st = NULL
        THEN /\ call' = [op |-> "session_lookup_del_connection", tc |-> tc,
                         rv |-> -1]
             /\ UNCHANGED session_tables
        ELSE IF tc.is_ip4
        THEN LET kv4 == make_v4_ss_kv_from_tc(tc)
             IN /\ session_tables' =
                     [session_tables EXCEPT ![table_index].v4_session_hash =
                        clib_bihash_del(@, kv4)]
                /\ call' = [op |-> "session_lookup_del_connection", tc |-> tc,
                            rv |-> clib_bihash_add_del_rv(st.v4_session_hash,
                                                          kv4, FALSE)]
        ELSE LET kv6 == make_v6_ss_kv_from_tc(tc)
             IN /\ session_tables' =
                     [session_tables EXCEPT ![table_index].v6_session_hash =
                        clib_bihash_del(@, kv6)]
                /\ call' = [op |-> "session_lookup_del_connection", tc |-> tc,
                            rv |-> clib_bihash_add_del_rv(st.v6_session_hash,
                                                          kv6, FALSE)]
     /\ UNCHANGED <<fib_index_to_table_index, srtg,
                    keyVars, processVars, lockVars, allocVars>>

\* session_lookup_add_half_open that keeps the handle a key already has
session_lookup_add_half_open_keep_first(tc, value) ==
  LET a == session_table_get_or_alloc_for_connection(fib_index_to_table_index,
                                                     session_tables, tc)
      st == a.pool[a.table_index]
  IN /\ call = Idle
     /\ fib_index_to_table_index' = a.reg
     /\ IF tc.is_ip4
        THEN LET kv4 == make_v4_ss_kv_from_tc(tc)
             IN /\ HasRoom(st.v4_half_open_hash, kv4)
                /\ session_tables' =
                     [a.pool EXCEPT ![a.table_index].v4_half_open_hash =
                        (IF kv4 \in DOMAIN @ THEN @
                         ELSE clib_bihash_add(@, kv4, value))]
                /\ call' = [op |-> "session_lookup_add_half_open", tc |-> tc,
                            value |-> value,
                            rv |-> clib_bihash_add_del_rv(st.v4_half_open_hash,
                                                          kv4, TRUE)]
        ELSE LET kv6 == make_v6_ss_kv_from_tc(tc)
             IN /\ HasRoom(st.v6_half_open_hash, kv6)
                /\ session_tables' =
                     [a.pool EXCEPT ![a.table_index].v6_half_open_hash =
                        (IF kv6 \in DOMAIN @ THEN @
                         ELSE clib_bihash_add(@, kv6, value))]
                /\ call' = [op |-> "session_lookup_add_half_open", tc |-> tc,
                            value |-> value,
                            rv |-> clib_bihash_add_del_rv(st.v6_half_open_hash,
                                                          kv6, TRUE)]
     /\ UNCHANGED <<srtg, keyVars, processVars, lockVars, allocVars>>

session_lookup_add_half_open(tc, value) ==
  LET a == session_table_get_or_alloc_for_connection(fib_index_to_table_index,
                                                     session_tables, tc)
      st == a.pool[a.table_index]
  IN /\ call = Idle
     /\ fib_index_to_table_index' = a.reg
     /\ IF tc.is_ip4
        THEN LET kv4 == make_v4_ss_kv_from_tc(tc)
             IN /\ HasRoom(st.v4_half_open_hash, kv4)
                /\ session_tables' =
                     [a.pool EXCEPT ![a.table_index].v4_half_open_hash =
                        clib_bihash_add(@, kv4, value)]
                /\ call' = [op |-> "session_lookup_add_half_open", tc |-> tc,
                            value |-> value,
                            rv |-> clib_bihash_add_del_rv(st.v4_half_open_hash,
                                                          kv4, TRUE)]
        ELSE LET kv6 == make_v6_ss_kv_from_tc(tc)
             IN /\ HasRoom(st.v6_half_open_hash, kv6)
                /\ session_tables' =
                     [a.pool EXCEPT ![a.table_index].v6_half_open_hash =
                        clib_bihash_add(@, kv6, value)]
                /\ call' = [op |-> "session_lookup_add_half_open", tc |-> tc,
                            value |-> value,
                            rv |-> clib_bihash_add_del_rv(st.v6_half_open_hash,
                                                          kv6, TRUE)]
     /\ UNCHANGED <<srtg, keyVars, processVars, lockVars, allocVars>>

\* session_lookup_del_half_open that deletes from the established map
session_lookup_del_half_open_established(tc) ==
  LET table_index == session_table_get_for_connection(fib_index_to_table_index,
                                                      tc)
      st == session_table_get(session_tables, table_index)
      kv == IF tc.is_ip4 THEN make_v4_ss_kv_from_tc(tc)
            ELSE make_v6_ss_kv_from_tc(tc)
  IN /\ call = Idle
     /\ IF st = NULL
        THEN /\ call' = [op |-> "session_lookup_del_half_open", tc |-> tc,
                         rv |-> -1]
             /\ UNCHANGED session_tables
        ELSE /\ session_tables' =
                  IF tc.is_ip4
                  THEN [session_tables EXCEPT ![table_index].v4_session_hash =
                          clib_bihash_del(@, kv)]
                  ELSE [session_tables EXCEPT ![table_index].v6_session_hash =
                          clib_bihash_del(@, kv)]
             /\ call' = [op |-> "session_lookup_del_half_open", tc |-> tc,
                         rv |-> clib_bihash_add_del_rv(
                                  IF tc.is_ip4 THEN st.v4_session_hash
                                  ELSE st.v6_session_hash, kv, FALSE)]
     /\ UNCHANGED <<fib_index_to_table_index, srtg,
                    keyVars, processVars, lockVars, allocVars>>

\* session_lookup_del_half_open that resolves its table as the additions do
session_lookup_del_half_open_alloc(tc) ==
  LET a == session_table_get_or_alloc_for_connection(fib_index_to_table_index,
                                                     session_tables, tc)
      st == a.pool[a.table_index]
      kv == IF tc.is_ip4 THEN make_v4_ss_kv_from_tc(tc)
            ELSE make_v6_ss_kv_from_tc(tc)
  IN /\ call = Idle
     /\ fib_index_to_table_index' = a.reg
     /\ session_tables' =
          IF tc.is_ip4
          THEN [a.pool EXCEPT ![a.table_index].v4_half_open_hash =
                  clib_bihash_del(@, kv)]
          ELSE [a.pool EXCEPT ![a.table_index].v6_half_open_hash =
                  clib_bihash_del(@, kv)]
     /\ call' = [op |-> "session_lookup_del_half_open", tc |-> tc,
                 rv |-> clib_bihash_add_del_rv(
                          IF tc.is_ip4 THEN st.v4_half_open_hash
                          ELSE st.v6_half_open_hash, kv, FALSE)]
     /\ UNCHANGED <<srtg, keyVars, processVars, lockVars, allocVars>>

session_lookup_del_half_open(tc) ==
  LET table_index == session_table_get_for_connection(fib_index_to_table_index,
                                                      tc)
      st == session_table_get(session_tables, table_index)
  IN /\ call = Idle
     /\ IF st = NULL
        THEN /\ call' = [op |-> "session_lookup_del_half_open", tc |-> tc,
                         rv |-> -1]
             /\ UNCHANGED session_tables
        ELSE IF tc.is_ip4
        THEN LET kv4 == make_v4_ss_kv_from_tc(tc)
             IN /\ session_tables' =
                     [session_tables EXCEPT ![table_index].v4_half_open_hash =
                        clib_bihash_del(@, kv4)]
                /\ call' = [op |-> "session_lookup_del_half_open", tc |-> tc,
                            rv |-> clib_bihash_add_del_rv(st.v4_half_open_hash,
                                                          kv4, FALSE)]
        ELSE LET kv6 == make_v6_ss_kv_from_tc(tc)
             IN /\ session_tables' =
                     [session_tables EXCEPT ![table_index].v6_half_open_hash =
                        clib_bihash_del(@, kv6)]
                /\ call' = [op |-> "session_lookup_del_half_open", tc |-> tc,
                            rv |-> clib_bihash_add_del_rv(st.v6_half_open_hash,
                                                          kv6, FALSE)]
     /\ UNCHANGED <<fib_index_to_table_index, srtg,
                    keyVars, processVars, lockVars, allocVars>>

session_lookup_add_session_endpoint(table_index, sep, value) ==
  LET st == session_table_get(session_tables, table_index)
  IN /\ call = Idle
     /\ IF st = NULL
        THEN /\ call' = [op |-> "session_lookup_add_session_endpoint",
                         table_index |-> table_index, sep |-> sep,
                         value |-> value, rv |-> -1]
             /\ UNCHANGED session_tables
        ELSE IF sep.is_ip4
        THEN LET kv4 == make_v4_listener_kv(sep.ip, sep.port,
                                            sep.transport_proto)
             IN /\ HasRoom(st.v4_session_hash, kv4)
                /\ session_tables' =
                     [session_tables EXCEPT ![table_index].v4_session_hash =
                        clib_bihash_add(@, kv4, value)]
                /\ call' = [op |-> "session_lookup_add_session_endpoint",
                            table_index |-> table_index, sep |-> sep,
                            value |-> value,
                            rv |-> clib_bihash_add_del_rv(st.v4_session_hash,
                                                          kv4, TRUE)]
        ELSE LET kv6 == make_v6_listener_kv(sep.ip, sep.port,
                                            sep.transport_proto)
             IN /\ HasRoom(st.v6_session_hash, kv6)
                /\ session_tables' =
                     [session_tables EXCEPT ![table_index].v6_session_hash =
                        clib_bihash_add(@, kv6, value)]
                /\ call' = [op |-> "session_lookup_add_session_endpoint",
                            table_index |-> table_index, sep |-> sep,
                            value |-> value,
                            rv |-> clib_bihash_add_del_rv(st.v6_session_hash,
                                                          kv6, TRUE)]
     /\ UNCHANGED <<fib_index_to_table_index, srtg,
                    keyVars, processVars, lockVars, allocVars>>

\* session_lookup_del_session_endpoint that reports success and deletes
\* nothing
session_lookup_del_session_endpoint_keep(table_index, sep) ==
  /\ call = Idle
  /\ call' = [op |-> "session_lookup_del_session_endpoint",
              table_index |-> table_index, sep |-> sep, rv |-> 0]
  /\ UNCHANGED <<fib_index_to_table_index, session_tables, srtg,
                 keyVars, processVars, lockVars, allocVars>>

session_lookup_del_session_endpoint(table_index, sep) ==
  LET st == session_table_get(session_tables, table_index)
  IN /\ call = Idle
     /\ IF st = NULL
        THEN /\ call' = [op |-> "session_lookup_del_session_endpoint",
                         table_index |-> table_index, sep |-> sep, rv |-> -1]
             /\ UNCHANGED session_tables
        ELSE IF sep.is_ip4
        THEN LET kv4 == make_v4_listener_kv(sep.ip, sep.port,
                                            sep.transport_proto)
             IN /\ session_tables' =
                     [session_tables EXCEPT ![table_index].v4_session_hash =
                        clib_bihash_del(@, kv4)]
                /\ call' = [op |-> "session_lookup_del_session_endpoint",
                            table_index |-> table_index, sep |-> sep,
                            rv |-> clib_bihash_add_del_rv(st.v4_session_hash,
                                                          kv4, FALSE)]
        ELSE LET kv6 == make_v6_listener_kv(sep.ip, sep.port,
                                            sep.transport_proto)
             IN /\ session_tables' =
                     [session_tables EXCEPT ![table_index].v6_session_hash =
                        clib_bihash_del(@, kv6)]
                /\ call' = [op |-> "session_lookup_del_session_endpoint",
                            table_index |-> table_index, sep |-> sep,
                            rv |-> clib_bihash_add_del_rv(st.v6_session_hash,
                                                          kv6, FALSE)]
     /\ UNCHANGED <<fib_index_to_table_index, srtg,
                    keyVars, processVars, lockVars, allocVars>>

-----------------------------------------------------------------------------
(* Session rules *)

SESSION_RULE_SCOPE_GLOBAL == 1
SESSION_RULE_SCOPE_LOCAL == 2

\* args->scope & flag, for scope in 0..255 and flag 1 or 2
ScopeHas(scope, flag) == (scope \div flag) % 2 = 1

Prefix(fp_proto, addr, len) ==
  [fp_proto |-> fp_proto, addr |-> addr, len |-> len]

\* session_rules_table_init: the table's rules-table handle and the rules
\* tables after it, a new empty one when the table had none
session_rules_table_init(pool, rules, table_index) ==
  IF pool[table_index].srtg_handle # SESSION_SRTG_HANDLE_INVALID
  THEN [pool |-> pool, rules |-> rules,
        srtg_handle |-> pool[table_index].srtg_handle]
  ELSE LET hd == PoolFreeIndex(rules)
       IN [pool |-> [pool EXCEPT ![table_index].srtg_handle = hd],
           rules |-> [i \in (DOMAIN rules) \cup {hd} |->
                        IF i = hd THEN [fp \in FibProtos |-> {}]
                        ELSE rules[i]],
           srtg_handle |-> hd]

\* The rule that table_args describes for a transport proto
RuleOf(transport_proto, table_args) ==
  [transport_proto |-> transport_proto, lcl |-> table_args.lcl,
   rmt |-> table_args.rmt, lcl_port |-> table_args.lcl_port,
   rmt_port |-> table_args.rmt_port, action_index |-> table_args.action_index]

\* session_rules_table_add_del: the rules of one rules table afterwards
session_rules_table_add_del(rule_set, transport_proto, table_args) ==
  LET r == RuleOf(transport_proto, table_args)
      others == {o \in rule_set : RuleKey(o) # RuleKey(r)}
  IN IF table_args.is_add THEN others \cup {r} ELSE others

RuleHasRoom(rule_set, transport_proto, table_args) ==
  \/ ~table_args.is_add
  \/ \E o \in rule_set : RuleKey(o) = RuleKey(RuleOf(transport_proto, table_args))
  \/ EntryCount < MaxEntries

RuleCall(args, rv) == [op |-> "vnet_session_rule_add_del", args |-> args, rv |-> rv]

\* vnet_session_rule_add_del that takes a scope above 3
vnet_session_rule_add_del_rv_any_scope(args, g_rv, l_rv) ==
  /\ call = Idle
  /\ UNCHANGED <<fib_index_to_table_index, keyVars, processVars, lockVars, allocVars>>
  /\ IF args.appns_index \notin DOMAIN app_namespaces
     THEN /\ call' = RuleCall(args, "SESSION_E_INVALID_NS")
          /\ UNCHANGED <<session_tables, srtg>>
     ELSE IF /\ args.transport_proto # TRANSPORT_PROTO_TCP
             /\ args.transport_proto # TRANSPORT_PROTO_UDP
     THEN /\ call' = RuleCall(args, "SESSION_E_INVALID")
          /\ UNCHANGED <<session_tables, srtg>>
     ELSE
       LET app_ns == app_namespaces[args.appns_index]
           is_global == ScopeHas(args.scope, SESSION_RULE_SCOPE_GLOBAL)
                        \/ args.scope = 0
           is_local == ScopeHas(args.scope, SESSION_RULE_SCOPE_LOCAL)
           fib_proto == args.table_args.rmt.fp_proto
           fib_index == app_namespace_get_fib_index(app_ns, fib_proto)
           g_index == session_lookup_get_index_for_fib(
                        fib_index_to_table_index, fib_proto, fib_index)
           g_missing == is_global
                        /\ session_table_get(session_tables, g_index) = NULL
           \* after the global part
           g == IF is_global /\ ~g_missing
                THEN session_rules_table_init(session_tables, srtg, g_index)
                ELSE [pool |-> session_tables, rules |-> srtg,
                      srtg_handle |-> SESSION_SRTG_HANDLE_INVALID]
           g_failed == is_global /\ g_rv # "SESSION_E_NONE"
           g_rules == IF is_global /\ ~g_missing /\ ~g_failed
                      THEN [g.rules EXCEPT ![g.srtg_handle][fib_proto] =
                              session_rules_table_add_del(@,
                                args.transport_proto, args.table_args)]
                      ELSE g.rules
           \* the local part zeroes the local prefix and port
           l_args == [args.table_args EXCEPT
                        !.lcl = Prefix(fib_proto,
                                       AnyAddr(fib_proto = FIB_PROTOCOL_IP4), 0),
                        !.lcl_port = 0]
           l == IF is_local /\ ~g_failed
                THEN session_rules_table_init(g.pool, g_rules,
                                              app_ns.local_table_index)
                ELSE [pool |-> g.pool, rules |-> g_rules,
                      srtg_handle |-> SESSION_SRTG_HANDLE_INVALID]
           l_rules == IF is_local /\ ~g_failed /\ l_rv = "SESSION_E_NONE"
                      THEN [l.rules EXCEPT ![l.srtg_handle][fib_proto] =
                              session_rules_table_add_del(@,
                                args.transport_proto, l_args)]
                      ELSE l.rules
       IN IF g_missing
          THEN /\ call' = RuleCall(args, "SESSION_E_INVALID")
               /\ UNCHANGED <<session_tables, srtg>>
          ELSE /\ (is_global /\ ~g_failed) =>
                    RuleHasRoom(g.rules[g.srtg_handle][fib_proto],
                                args.transport_proto,
                                args.table_args)
               /\ (is_local /\ ~g_failed /\ l_rv = "SESSION_E_NONE") =>
                    RuleHasRoom(l.rules[l.srtg_handle][fib_proto],
                                args.transport_proto,
                                l_args)
               /\ session_tables' = l.pool
               /\ srtg' = l_rules
               /\ call' = RuleCall(args, IF g_failed THEN g_rv
                                         ELSE IF is_local THEN l_rv
                                         ELSE "SESSION_E_NONE")

\* vnet_session_rule_add_del; g_rv and l_rv are what
\* session_rules_table_add_del returns for the global and for the local
\* table, a call that fails leaving its rules table as it was
vnet_session_rule_add_del_rv(args, g_rv, l_rv) ==
  /\ call = Idle
  /\ UNCHANGED <<fib_index_to_table_index, keyVars, processVars, lockVars, allocVars>>
  /\ IF args.appns_index \notin DOMAIN app_namespaces
     THEN /\ call' = RuleCall(args, "SESSION_E_INVALID_NS")
          /\ UNCHANGED <<session_tables, srtg>>
     ELSE IF args.scope > 3
     THEN /\ call' = RuleCall(args, "SESSION_E_INVALID")
          /\ UNCHANGED <<session_tables, srtg>>
     ELSE IF /\ args.transport_proto # TRANSPORT_PROTO_TCP
             /\ args.transport_proto # TRANSPORT_PROTO_UDP
     THEN /\ call' = RuleCall(args, "SESSION_E_INVALID")
          /\ UNCHANGED <<session_tables, srtg>>
     ELSE
       LET app_ns == app_namespaces[args.appns_index]
           is_global == ScopeHas(args.scope, SESSION_RULE_SCOPE_GLOBAL)
                        \/ args.scope = 0
           is_local == ScopeHas(args.scope, SESSION_RULE_SCOPE_LOCAL)
           fib_proto == args.table_args.rmt.fp_proto
           fib_index == app_namespace_get_fib_index(app_ns, fib_proto)
           g_index == session_lookup_get_index_for_fib(
                        fib_index_to_table_index, fib_proto, fib_index)
           g_missing == is_global
                        /\ session_table_get(session_tables, g_index) = NULL
           \* after the global part
           g == IF is_global /\ ~g_missing
                THEN session_rules_table_init(session_tables, srtg, g_index)
                ELSE [pool |-> session_tables, rules |-> srtg,
                      srtg_handle |-> SESSION_SRTG_HANDLE_INVALID]
           g_failed == is_global /\ g_rv # "SESSION_E_NONE"
           g_rules == IF is_global /\ ~g_missing /\ ~g_failed
                      THEN [g.rules EXCEPT ![g.srtg_handle][fib_proto] =
                              session_rules_table_add_del(@,
                                args.transport_proto, args.table_args)]
                      ELSE g.rules
           \* the local part zeroes the local prefix and port
           l_args == [args.table_args EXCEPT
                        !.lcl = Prefix(fib_proto,
                                       AnyAddr(fib_proto = FIB_PROTOCOL_IP4), 0),
                        !.lcl_port = 0]
           l == IF is_local /\ ~g_failed
                THEN session_rules_table_init(g.pool, g_rules,
                                              app_ns.local_table_index)
                ELSE [pool |-> g.pool, rules |-> g_rules,
                      srtg_handle |-> SESSION_SRTG_HANDLE_INVALID]
           l_rules == IF is_local /\ ~g_failed /\ l_rv = "SESSION_E_NONE"
                      THEN [l.rules EXCEPT ![l.srtg_handle][fib_proto] =
                              session_rules_table_add_del(@,
                                args.transport_proto, l_args)]
                      ELSE l.rules
       IN IF g_missing
          THEN /\ call' = RuleCall(args, "SESSION_E_INVALID")
               /\ UNCHANGED <<session_tables, srtg>>
          ELSE /\ (is_global /\ ~g_failed) =>
                    RuleHasRoom(g.rules[g.srtg_handle][fib_proto],
                                args.transport_proto,
                                args.table_args)
               /\ (is_local /\ ~g_failed /\ l_rv = "SESSION_E_NONE") =>
                    RuleHasRoom(l.rules[l.srtg_handle][fib_proto],
                                args.transport_proto,
                                l_args)
               /\ session_tables' = l.pool
               /\ srtg' = l_rules
               /\ call' = RuleCall(args, IF g_failed THEN g_rv
                                         ELSE IF is_local THEN l_rv
                                         ELSE "SESSION_E_NONE")

\* vnet_session_rule_add_del on rules tables that take the request
vnet_session_rule_add_del(args) ==
  vnet_session_rule_add_del_rv(args, "SESSION_E_NONE", "SESSION_E_NONE")

-----------------------------------------------------------------------------
(* Lookup calls *)

LookupConnectionWt(tc, thread_index, result) ==
  LET r == IF tc.is_ip4
           THEN session_lookup_connection_wt4(tc.fib_index, tc.lcl_ip,
                  tc.rmt_ip, tc.lcl_port, tc.rmt_port, tc.proto, thread_index,
                  result)
           ELSE session_lookup_connection_wt6(tc.fib_index, tc.lcl_ip,
                  tc.rmt_ip, tc.lcl_port, tc.rmt_port, tc.proto, thread_index,
                  result)
  IN /\ call = Idle
     /\ call' = [op |-> IF tc.is_ip4 THEN "session_lookup_connection_wt4"
                        ELSE "session_lookup_connection_wt6",
                 tc |-> tc, thread_index |-> thread_index,
                 result_in |-> result, rv |-> r.rv, result |-> r.result]
     /\ UNCHANGED <<fib_index_to_table_index, session_tables, srtg,
                    keyVars, processVars, lockVars, allocVars>>

\* session_lookup_listener4 / session_lookup_listener6
LookupListenerFib(sep, use_wildcard) ==
  /\ call = Idle
  /\ call' = [op |-> IF sep.is_ip4 THEN "session_lookup_listener4"
                     ELSE "session_lookup_listener6",
              sep |-> sep, use_wildcard |-> use_wildcard,
              rv |-> IF sep.is_ip4
                     THEN session_lookup_listener4(sep.fib_index, sep.ip,
                            sep.port, sep.transport_proto, use_wildcard)
                     ELSE session_lookup_listener6(sep.fib_index, sep.ip,
                            sep.port, sep.transport_proto, use_wildcard)]
  /\ UNCHANGED <<fib_index_to_table_index, session_tables, srtg,
                 keyVars, processVars, lockVars, allocVars>>

LookupListener(table_index, sep) ==
  /\ call = Idle
  /\ call' = [op |-> "session_lookup_listener", table_index |-> table_index,
              sep |-> sep, rv |-> session_lookup_listener(table_index, sep)]
  /\ UNCHANGED <<fib_index_to_table_index, session_tables, srtg,
                 keyVars, processVars, lockVars, allocVars>>

LookupListenerWildcard(table_index, sep) ==
  /\ call = Idle
  /\ call' = [op |-> "session_lookup_listener_wildcard",
              table_index |-> table_index, sep |-> sep,
              rv |-> session_lookup_listener_wildcard(table_index, sep)]
  /\ UNCHANGED <<fib_index_to_table_index, session_tables, srtg,
                 keyVars, processVars, lockVars, allocVars>>

\* session_lookup_connection, which calls session_lookup_connection4 / 6
LookupConnection(tc) ==
  /\ call = Idle
  /\ call' = [op |-> "session_lookup_connection", tc |-> tc,
              rv |-> session_lookup_connection(tc.fib_index, tc.lcl_ip,
                       tc.rmt_ip, tc.lcl_port, tc.rmt_port, tc.proto,
                       tc.is_ip4)]
  /\ UNCHANGED <<fib_index_to_table_index, session_tables, srtg,
                 keyVars, processVars, lockVars, allocVars>>

\* session_lookup_safe4 / session_lookup_safe6
LookupSafe(tc) ==
  /\ call = Idle
  /\ call' = [op |-> "session_lookup_safe", tc |-> tc,
              rv |-> IF tc.is_ip4
                     THEN session_lookup_safe4(tc.fib_index, tc.lcl_ip,
                            tc.rmt_ip, tc.lcl_port, tc.rmt_port, tc.proto)
                     ELSE session_lookup_safe6(tc.fib_index, tc.lcl_ip,
                            tc.rmt_ip, tc.lcl_port, tc.rmt_port, tc.proto)]
  /\ UNCHANGED <<fib_index_to_table_index, session_tables, srtg,
                 keyVars, processVars, lockVars, allocVars>>

Lookup6Tuple(tc) ==
  /\ call = Idle
  /\ call' = [op |-> "session_lookup_6tuple", tc |-> tc,
              rv |-> session_lookup_6tuple(tc.fib_index, tc.lcl_ip, tc.rmt_ip,
                       tc.lcl_port, tc.rmt_port, tc.proto, tc.is_ip4)]
  /\ UNCHANGED <<fib_index_to_table_index, session_tables, srtg,
                 keyVars, processVars, lockVars, allocVars>>

LookupHalfOpenHandle(tc) ==
  /\ call = Idle
  /\ call' = [op |-> "session_lookup_half_open_handle", tc |-> tc,
              rv |-> session_lookup_half_open_handle(tc)]
  /\ UNCHANGED <<fib_index_to_table_index, session_tables, srtg,
                 keyVars, processVars, lockVars, allocVars>>

LookupLocalEndpoint(table_index, sep) ==
  /\ call = Idle
  /\ call' = [op |-> "session_lookup_local_endpoint",
              table_index |-> table_index, sep |-> sep,
              rv |-> session_lookup_local_endpoint(table_index, sep)]
  /\ UNCHANGED <<fib_index_to_table_index, session_tables, srtg,
                 keyVars, processVars, lockVars, allocVars>>

LookupEndpointListener(table_index, sep, use_rules) ==
  /\ call = Idle
  /\ call' = [op |-> "session_lookup_endpoint_listener",
              table_index |-> table_index, sep |-> sep,
              use_rules |-> use_rules,
              rv |-> session_lookup_endpoint_listener(table_index, sep,
                                                      use_rules)]
  /\ UNCHANGED <<fib_index_to_table_index, session_tables, srtg,
                 keyVars, processVars, lockVars, allocVars>>

\* The caller takes the result and goes on
CallerContinues ==
  /\ call # Idle
  /\ call' = Idle
  /\ UNCHANGED <<fib_index_to_table_index, session_tables, srtg,
                 keyVars, processVars, lockVars, allocVars>>

-----------------------------------------------------------------------------
(* Table lifecycle: namespaces attach to and release the tables of their    *)
(* fib indices                                                              *)

vec_validate(v, index) == vec_validate_init_empty(v, index, 0)

\* vec_add1 (v, e)
vec_add1(v, e) == Append(v, e)

\* vec_del1 (v, i): the last element moves into slot i
vec_del1(v, i) ==
  LET last == Len(v)
  IN [j \in 1..(last - 1) |-> IF j = i + 1 THEN v[last] ELSE v[j]]

\* The lock counts after session_lookup_fib_table_lock
session_lookup_fib_table_lock(lock_count, fib_index, protocol) ==
  LET v == vec_validate(lock_count[protocol], fib_index)
  IN [lock_count EXCEPT ![protocol] = [v EXCEPT ![fib_index + 1] = @ + 1]]

\* The lock counts after session_lookup_fib_table_unlock, whose ASSERT the
\* caller meets
session_lookup_fib_table_unlock(lock_count, fib_index, protocol) ==
  [lock_count EXCEPT ![protocol][fib_index + 1] = @ - 1]

\* One pass of the loop of session_lookup_set_tables_appns over fib protocol
\* fp, from registry, pool and lock counts s
SetTablesAppnsPass(s, appns_index, fp) ==
  LET fib_index == app_namespace_get_fib_index(app_namespaces[appns_index], fp)
      a == session_table_get_or_alloc(s.reg, s.pool, fp, fib_index)
  IN IF fib_index = INDEX_INVALID THEN s
     ELSE [reg |-> a.reg,
           pool |-> [a.pool EXCEPT ![a.table_index].appns_index =
                       vec_add1(@, appns_index)],
           lock |-> session_lookup_fib_table_lock(s.lock, fib_index, fp)]

\* The namespace is on the namespace list of a table
AppnsAttached(appns_index) ==
  \E i \in DOMAIN session_tables :
    /\ ~session_tables[i].is_local
    /\ \E j \in DOMAIN session_tables[i].appns_index :
         session_tables[i].appns_index[j] = appns_index

\* A namespace attaches to the tables of its fib indices
session_lookup_set_tables_appns(appns_index) ==
  LET s0 == [reg |-> fib_index_to_table_index, pool |-> session_tables,
             lock |-> fib_index_to_lock_count]
      s1 == SetTablesAppnsPass(s0, appns_index, FIB_PROTOCOL_IP4)
      s2 == SetTablesAppnsPass(s1, appns_index, FIB_PROTOCOL_IP6)
  IN /\ call = Idle
     /\ fib_index_to_table_index' = s2.reg
     /\ session_tables' = s2.pool
     /\ fib_index_to_lock_count' = s2.lock
     /\ call' = [op |-> "session_lookup_set_tables_appns",
                 appns_index |-> appns_index]
     /\ UNCHANGED <<srtg, keyVars, processVars, allocVars>>

\* The loop of session_lookup_table_cleanup over st->appns_index from slot i
RECURSIVE appns_index_del(_, _, _)
appns_index_del(v, i, ns_index) ==
  IF i >= vec_len(v) THEN v
  ELSE IF vec_elt(v, i) = ns_index
  THEN appns_index_del(vec_del1(v, i), i + 1, ns_index)
  ELSE appns_index_del(v, i + 1, ns_index)

\* session_lookup_table_cleanup that frees the table whatever the lock count
session_lookup_table_cleanup_always_free(fib_proto, fib_index, ns_index) ==
  LET lock_count == session_lookup_fib_table_unlock(fib_index_to_lock_count,
                                                    fib_index, fib_proto)
      table_index == session_lookup_get_index_for_fib(
                       fib_index_to_table_index, fib_proto, fib_index)
  IN /\ call = Idle
     /\ fib_index # INDEX_INVALID
     /\ vec_len(fib_index_to_lock_count[fib_proto]) > fib_index
     /\ vec_elt(fib_index_to_lock_count[fib_proto], fib_index) > 0
     /\ table_index \in DOMAIN session_tables
     /\ fib_index_to_lock_count' = lock_count
     /\ session_tables' =
          [i \in (DOMAIN session_tables) \ {table_index} |-> session_tables[i]]
     /\ fib_index_to_table_index' =
          [fib_index_to_table_index EXCEPT ![fib_proto][fib_index + 1] =
             SESSION_TABLE_INVALID_INDEX]
     /\ call' = [op |-> "session_lookup_table_cleanup",
                 fib_proto |-> fib_proto, fib_index |-> fib_index,
                 ns_index |-> ns_index, table_index |-> table_index]
     /\ UNCHANGED <<srtg, keyVars, processVars, allocVars>>

\* A namespace that is being removed releases the table of one of its fib
\* indices.  Its lock is one it took in session_lookup_set_tables_appns.
session_lookup_table_cleanup(fib_proto, fib_index, ns_index) ==
  LET lock_count == session_lookup_fib_table_unlock(fib_index_to_lock_count,
                                                    fib_index, fib_proto)
      table_index ==
        IF fib_index = INDEX_INVALID THEN SESSION_TABLE_INVALID_INDEX
        ELSE session_lookup_get_index_for_fib(fib_index_to_table_index,
                                              fib_proto, fib_index)
      st == session_table_get(session_tables, table_index)
      this_call == [op |-> "session_lookup_table_cleanup",
                    fib_proto |-> fib_proto, fib_index |-> fib_index,
                    ns_index |-> ns_index, table_index |-> table_index]
  IN /\ call = Idle
     /\ call' = this_call
     /\ IF fib_index = INDEX_INVALID
        THEN UNCHANGED <<fib_index_to_table_index, session_tables,
                         fib_index_to_lock_count>>
        ELSE /\ vec_len(fib_index_to_lock_count[fib_proto]) > fib_index
             /\ vec_elt(fib_index_to_lock_count[fib_proto], fib_index) > 0
             /\ st # NULL =>
                  \E j \in DOMAIN st.appns_index : st.appns_index[j] = ns_index
             /\ fib_index_to_lock_count' = lock_count
             /\ IF st = NULL
                THEN UNCHANGED <<fib_index_to_table_index, session_tables>>
                ELSE IF vec_elt(lock_count[fib_proto], fib_index) = 0
                THEN /\ session_tables' =
                          [i \in (DOMAIN session_tables) \ {table_index} |->
                             session_tables[i]]
                     /\ fib_index_to_table_index' =
                          IF vec_len(fib_index_to_table_index[fib_proto])
                               > fib_index
                          THEN [fib_index_to_table_index EXCEPT
                                  ![fib_proto][fib_index + 1] =
                                    SESSION_TABLE_INVALID_INDEX]
                          ELSE fib_index_to_table_index
                ELSE /\ session_tables' =
                          [session_tables EXCEPT ![table_index].appns_index =
                             appns_index_del(@, 0, ns_index)]
                     /\ UNCHANGED fib_index_to_table_index
     /\ UNCHANGED <<srtg, keyVars, processVars, allocVars>>

session_lookup_del_session_endpoint2(sep) ==
  LET fib_proto == IF sep.is_ip4 THEN FIB_PROTOCOL_IP4 ELSE FIB_PROTOCOL_IP6
      table_index == session_lookup_get_index_for_fib(
                       fib_index_to_table_index, fib_proto, sep.fib_index)
      st == session_table_get(session_tables, table_index)
      kv == IF sep.is_ip4
            THEN make_v4_listener_kv(sep.ip, sep.port, sep.transport_proto)
            ELSE make_v6_listener_kv(sep.ip, sep.port, sep.transport_proto)
  IN /\ call = Idle
     /\ IF st = NULL
        THEN /\ call' = [op |-> "session_lookup_del_session_endpoint2",
                         sep |-> sep, rv |-> -1]
             /\ UNCHANGED session_tables
        ELSE IF sep.is_ip4
        THEN /\ session_tables' =
                  [session_tables EXCEPT ![table_index].v4_session_hash =
                     clib_bihash_del(@, kv)]
             /\ call' = [op |-> "session_lookup_del_session_endpoint2",
                         sep |-> sep,
                         rv |-> clib_bihash_add_del_rv(st.v4_session_hash, kv,
                                                       FALSE)]
        ELSE /\ session_tables' =
                  [session_tables EXCEPT ![table_index].v6_session_hash =
                     clib_bihash_del(@, kv)]
             /\ call' = [op |-> "session_lookup_del_session_endpoint2",
                         sep |-> sep,
                         rv |-> clib_bihash_add_del_rv(st.v6_session_hash, kv,
                                                       FALSE)]
     /\ UNCHANGED <<fib_index_to_table_index, srtg,
                    keyVars, processVars, lockVars, allocVars>>

-----------------------------------------------------------------------------
(* Key encoder calls *)

NoKey == <<>>

MakeSsKv ==
  /\ kout.ss = NoKey
  /\ kout' = [kout EXCEPT !.ss =
       IF kin.is_ip4
       THEN make_v4_ss_kv(kin.lcl, kin.rmt, kin.lcl_port, kin.rmt_port,
                          kin.proto)
       ELSE make_v6_ss_kv(kin.lcl, kin.rmt, kin.lcl_port, kin.rmt_port,
                          kin.proto)]
  /\ UNCHANGED <<kin, processVars, tableVars, lockVars, allocVars>>

MakeListenerKv ==
  /\ kout.listener = NoKey
  /\ kout' = [kout EXCEPT !.listener =
       IF kin.is_ip4
       THEN make_v4_listener_kv(kin.lcl, kin.lcl_port, kin.proto)
       ELSE make_v6_listener_kv(kin.lcl, kin.lcl_port, kin.proto)]
  /\ UNCHANGED <<kin, processVars, tableVars, lockVars, allocVars>>

MakeProxyKv ==
  /\ kout.proxy = NoKey
  /\ kout' = [kout EXCEPT !.proxy =
       IF kin.is_ip4 THEN make_v4_proxy_kv(kin.lcl, kin.proto)
       ELSE make_v6_proxy_kv(kin.lcl, kin.proto)]
  /\ UNCHANGED <<kin, processVars, tableVars, lockVars, allocVars>>

\* Encoder inputs: zero, ordinary and all-ones values of every field
KeyAddrs(is_ip4) ==
  IF is_ip4 THEN {IP4_ANY, IP4_LCL, IP4_RMT, U32_ALL_ONES}
  ELSE {IP6_ANY, IP6_LCL, IP6_RMT, <<U64_ALL_ONES, U64_ALL_ONES>>}
KeyPorts == {0, 80, LimbMax}
KeyProtos == {0, 1, 255}

KeyInputs(is_ip4) ==
  [is_ip4 : {is_ip4}, lcl : KeyAddrs(is_ip4), rmt : KeyAddrs(is_ip4),
   lcl_port : KeyPorts, rmt_port : KeyPorts, proto : KeyProtos]

-----------------------------------------------------------------------------
(* session_table_get_or_alloc and session_table_get_for_fib_index, one      *)
(* thread step at a time.  Thread 0 is the main thread, which runs session  *)
(* layer code with the worker barrier held; the others are workers.         *)

NumWorkers == 2
MaxNewFibIndex == 1

MainThread == 0
Workers == 1..NumWorkers
Threads == {MainThread} \cup Workers
NewFibIndices == 0..MaxNewFibIndex

IdleThread ==
  [pc |-> "idle", fib_proto |-> FIB_PROTOCOL_IP4, fib_index |-> 0,
   needs_sync |-> FALSE, st |-> SESSION_TABLE_INVALID_INDEX]

InitThreads ==
  /\ threads = [t \in Threads |-> IdleThread]
  /\ st_alloc_lock = {}
  /\ main_barrier = "none"
  /\ history = [allocated |-> {}, returned |-> {}]

InitLocks == fib_index_to_lock_count = [fp \in FibProtos |-> <<>>]

\* session_table_alloc: a zeroed pool element, its hashes not yet created
session_table_alloc == [active_fib_proto |-> 0, is_local |-> FALSE]

\* session_table_init has run on the element
TableInitialized(st) == "v4_session_hash" \in DOMAIN st

\* Positions between vlib_workers_sync returning and vlib_workers_continue
BeforeBarrier ==
  {"spinlock_lock", "recheck", "alloc", "init", "publish", "spinlock_unlock"}

\* A worker asked for the barrier (vlib_workers_sync) and has not released it
WorkersSyncing ==
  \E u \in Workers :
    threads[u].pc \in BeforeBarrier \cup {"workers_sync", "workers_continue"}

BarrierRequested == main_barrier # "none" \/ WorkersSyncing

vlib_thread_is_main_w_barrier(t) == t = MainThread /\ main_barrier = "held"

vlib_num_workers == NumWorkers

session_table_alloc_needs_sync(t) ==
  ~vlib_thread_is_main_w_barrier(t) /\ vlib_num_workers > 1

\* vlib_worker_thread_barrier_sync on the main thread: workers park at their
\* next pass through the dispatch loop, the barrier is held once all have
main_barrier_sync ==
  /\ threads[MainThread].pc = "idle"
  /\ \/ main_barrier = "none" /\ main_barrier' = "requested"
     \/ /\ main_barrier = "requested"
        /\ \A u \in Workers : threads[u].pc = "parked"
        /\ main_barrier' = "held"
  /\ UNCHANGED <<tableVars, keyVars, processVars, lockVars, threads, st_alloc_lock,
                 history>>

main_barrier_release ==
  /\ threads[MainThread].pc = "idle"
  /\ main_barrier = "held"
  /\ main_barrier' = "none"
  /\ UNCHANGED <<tableVars, keyVars, processVars, lockVars, threads, st_alloc_lock,
                 history>>

\* A worker between two handlers meets a requested barrier and waits there
worker_barrier_park(t) ==
  /\ t \in Workers
  /\ threads[t].pc = "idle"
  /\ BarrierRequested
  /\ threads' = [threads EXCEPT ![t].pc = "parked"]
  /\ UNCHANGED <<tableVars, keyVars, processVars, lockVars, st_alloc_lock, main_barrier,
                 history>>

worker_barrier_resume(t) ==
  /\ threads[t].pc = "parked"
  /\ ~BarrierRequested
  /\ threads' = [threads EXCEPT ![t].pc = "idle"]
  /\ UNCHANGED <<tableVars, keyVars, processVars, lockVars, st_alloc_lock, main_barrier,
                 history>>

\* A thread enters session_table_get_or_alloc
get_or_alloc_call(t, fib_proto, fib_index) ==
  /\ threads[t].pc = "idle"
  /\ t = MainThread => main_barrier = "held"
  /\ threads' = [threads EXCEPT ![t] =
       [IdleThread EXCEPT !.pc = "is_alloced", !.fib_proto = fib_proto,
                          !.fib_index = fib_index]]
  /\ UNCHANGED <<tableVars, keyVars, processVars, lockVars, st_alloc_lock, main_barrier,
                 history>>

\* The first, unsynchronised session_table_is_alloced
get_or_alloc_is_alloced(t) ==
  LET me == threads[t]
  IN /\ me.pc = "is_alloced"
     /\ threads' = [threads EXCEPT ![t] =
          IF session_table_is_alloced(fib_index_to_table_index, me.fib_proto,
                                      me.fib_index)
          THEN [me EXCEPT !.pc = "return",
                          !.st = vec_elt(fib_index_to_table_index[me.fib_proto],
                                         me.fib_index)]
          ELSE [me EXCEPT !.pc = "needs_sync"]]
     /\ UNCHANGED <<tableVars, keyVars, processVars, lockVars, st_alloc_lock, main_barrier,
                    history>>

get_or_alloc_needs_sync(t) ==
  LET me == threads[t]
      needs_sync == session_table_alloc_needs_sync(t)
  IN /\ me.pc = "needs_sync"
     /\ threads' = [threads EXCEPT ![t] =
          [me EXCEPT !.needs_sync = needs_sync,
                     !.pc = IF needs_sync THEN "workers_sync" ELSE "recheck"]]
     /\ UNCHANGED <<tableVars, keyVars, processVars, lockVars, st_alloc_lock, main_barrier,
                    history>>

\* vlib_workers_sync returns once every other worker is parked at the barrier
\* or is itself between vlib_workers_sync and vlib_workers_continue
get_or_alloc_workers_sync(t) ==
  /\ threads[t].pc = "workers_sync"
  /\ \A u \in Workers \ {t} :
       threads[u].pc \in
         BeforeBarrier \cup {"parked", "workers_sync", "workers_continue"}
  /\ threads' = [threads EXCEPT ![t].pc = "spinlock_lock"]
  /\ UNCHANGED <<tableVars, keyVars, processVars, lockVars, st_alloc_lock, main_barrier,
                 history>>

get_or_alloc_spinlock_lock(t) ==
  /\ threads[t].pc = "spinlock_lock"
  /\ st_alloc_lock = {}
  /\ st_alloc_lock' = {t}
  /\ threads' = [threads EXCEPT ![t].pc = "recheck"]
  /\ UNCHANGED <<tableVars, keyVars, processVars, lockVars, main_barrier, history>>

\* The second session_table_is_alloced, without the allocation it guards
get_or_alloc_recheck_skipped(t) ==
  /\ threads[t].pc = "recheck"
  /\ threads' = [threads EXCEPT ![t].pc = "alloc"]
  /\ UNCHANGED <<tableVars, keyVars, processVars, lockVars, st_alloc_lock, main_barrier,
                 history>>

\* The second session_table_is_alloced returning the table it finds at once,
\* past clib_spinlock_unlock and vlib_workers_continue
get_or_alloc_recheck_early_return(t) ==
  LET me == threads[t]
  IN /\ me.pc = "recheck"
     /\ threads' = [threads EXCEPT ![t] =
          IF session_table_is_alloced(fib_index_to_table_index, me.fib_proto,
                                      me.fib_index)
          THEN [me EXCEPT !.pc = "return",
                          !.st = vec_elt(fib_index_to_table_index[me.fib_proto],
                                         me.fib_index)]
          ELSE [me EXCEPT !.pc = "alloc"]]
     /\ UNCHANGED <<tableVars, keyVars, processVars, lockVars, st_alloc_lock, main_barrier,
                    history>>

\* The second session_table_is_alloced: another worker just allocated it
get_or_alloc_recheck(t) ==
  LET me == threads[t]
  IN /\ me.pc = "recheck"
     /\ threads' = [threads EXCEPT ![t] =
          IF session_table_is_alloced(fib_index_to_table_index, me.fib_proto,
                                      me.fib_index)
          THEN [me EXCEPT !.pc = "spinlock_unlock",
                          !.st = vec_elt(fib_index_to_table_index[me.fib_proto],
                                         me.fib_index)]
          ELSE [me EXCEPT !.pc = "alloc"]]
     /\ UNCHANGED <<tableVars, keyVars, processVars, lockVars, st_alloc_lock, main_barrier,
                    history>>

\* get_or_alloc_alloc writing the registry slot as soon as the pool element
\* exists, before session_table_init
get_or_alloc_alloc_published(t) ==
  LET me == threads[t]
      table_index == PoolFreeIndex(session_tables)
      v == vec_validate_init_empty(fib_index_to_table_index[me.fib_proto],
                                   me.fib_index, SESSION_TABLE_INVALID_INDEX)
  IN /\ me.pc = "alloc"
     /\ session_tables' =
          [i \in (DOMAIN session_tables) \cup {table_index} |->
             IF i = table_index THEN session_table_alloc
             ELSE session_tables[i]]
     /\ fib_index_to_table_index' =
          [fib_index_to_table_index EXCEPT ![me.fib_proto] =
             [v EXCEPT ![me.fib_index + 1] = table_index]]
     /\ threads' = [threads EXCEPT ![t] =
          [me EXCEPT !.pc = "init", !.st = table_index]]
     /\ history' = [history EXCEPT !.allocated =
          @ \cup {<<me.fib_proto, me.fib_index, table_index>>}]
     /\ UNCHANGED <<srtg, call, keyVars, processVars, lockVars, st_alloc_lock,
                    main_barrier>>

\* st = session_table_alloc ()
get_or_alloc_alloc(t) ==
  LET me == threads[t]
      table_index == PoolFreeIndex(session_tables)
  IN /\ me.pc = "alloc"
     /\ session_tables' =
          [i \in (DOMAIN session_tables) \cup {table_index} |->
             IF i = table_index THEN session_table_alloc
             ELSE session_tables[i]]
     /\ threads' = [threads EXCEPT ![t] =
          [me EXCEPT !.pc = "init", !.st = table_index]]
     /\ history' = [history EXCEPT !.allocated =
          @ \cup {<<me.fib_proto, me.fib_index, table_index>>}]
     /\ UNCHANGED <<fib_index_to_table_index, srtg, call, keyVars, processVars, lockVars,
                    st_alloc_lock, main_barrier>>

\* st->active_fib_proto = fib_proto; session_table_init (st, fib_proto)
get_or_alloc_init(t) ==
  LET me == threads[t]
  IN /\ me.pc = "init"
     /\ session_tables' =
          [session_tables EXCEPT ![me.st] = NewSessionTable(me.fib_proto)]
     /\ threads' = [threads EXCEPT ![t].pc = "publish"]
     /\ UNCHANGED <<fib_index_to_table_index, srtg, call, keyVars, processVars, lockVars,
                    st_alloc_lock, main_barrier, history>>

\* vec_validate_init_empty, then the registry slot is written
get_or_alloc_publish(t) ==
  LET me == threads[t]
      v == vec_validate_init_empty(fib_index_to_table_index[me.fib_proto],
                                   me.fib_index, SESSION_TABLE_INVALID_INDEX)
  IN /\ me.pc = "publish"
     /\ fib_index_to_table_index' =
          [fib_index_to_table_index EXCEPT ![me.fib_proto] =
             [v EXCEPT ![me.fib_index + 1] = me.st]]
     /\ threads' = [threads EXCEPT ![t].pc = "spinlock_unlock"]
     /\ UNCHANGED <<session_tables, srtg, call, keyVars, processVars, lockVars,
                    st_alloc_lock, main_barrier, history>>

\* if (needs_sync) clib_spinlock_unlock (&slm->st_alloc_lock)
get_or_alloc_spinlock_unlock(t) ==
  LET me == threads[t]
  IN /\ me.pc = "spinlock_unlock"
     /\ IF me.needs_sync
        THEN /\ st_alloc_lock' = st_alloc_lock \ {t}
             /\ threads' = [threads EXCEPT ![t].pc = "workers_continue"]
        ELSE /\ st_alloc_lock' = st_alloc_lock
             /\ threads' = [threads EXCEPT ![t].pc = "return"]
     /\ UNCHANGED <<tableVars, keyVars, processVars, lockVars, main_barrier, history>>

\* vlib_workers_continue returns once every worker that passed
\* vlib_workers_sync has done its work
get_or_alloc_workers_continue(t) ==
  /\ threads[t].pc = "workers_continue"
  /\ \A u \in Workers \ {t} : threads[u].pc \notin BeforeBarrier
  /\ threads' = [threads EXCEPT ![t].pc = "return"]
  /\ UNCHANGED <<tableVars, keyVars, processVars, lockVars, st_alloc_lock, main_barrier,
                 history>>

\* return st
get_or_alloc_return(t) ==
  LET me == threads[t]
  IN /\ me.pc = "return"
     /\ history' = [history EXCEPT !.returned =
          @ \cup {<<me.fib_proto, me.fib_index, me.st>>}]
     /\ threads' = [threads EXCEPT ![t] = IdleThread]
     /\ UNCHANGED <<tableVars, keyVars, processVars, lockVars, st_alloc_lock,
                    main_barrier>>

\* A worker enters session_table_get_for_fib_index, the lock-free reader
get_for_fib_index_call(t, fib_proto, fib_index) ==
  /\ t \in Workers
  /\ threads[t].pc = "idle"
  /\ threads' = [threads EXCEPT ![t] =
       [IdleThread EXCEPT !.pc = "vec_len", !.fib_proto = fib_proto,
                          !.fib_index = fib_index]]
  /\ UNCHANGED <<tableVars, keyVars, processVars, lockVars, st_alloc_lock, main_barrier,
                 history>>

\* if (vec_len (fib_index_to_table_index[fib_proto]) <= fib_index) return 0
get_for_fib_index_vec_len(t) ==
  LET me == threads[t]
  IN /\ me.pc = "vec_len"
     /\ threads' = [threads EXCEPT ![t].pc =
          IF vec_len(fib_index_to_table_index[me.fib_proto]) <= me.fib_index
          THEN "reader_return" ELSE "vec_elt"]
     /\ UNCHANGED <<tableVars, keyVars, processVars, lockVars, st_alloc_lock, main_barrier,
                    history>>

\* session_table_get (fib_index_to_table_index[fib_proto][fib_index])
get_for_fib_index_vec_elt(t) ==
  LET me == threads[t]
  IN /\ me.pc = "vec_elt"
     /\ threads' = [threads EXCEPT ![t] =
          [me EXCEPT !.pc = "reader_return",
                     !.st = vec_elt(fib_index_to_table_index[me.fib_proto],
                                    me.fib_index)]]
     /\ UNCHANGED <<tableVars, keyVars, processVars, lockVars, st_alloc_lock, main_barrier,
                    history>>

get_for_fib_index_return(t) ==
  /\ threads[t].pc = "reader_return"
  /\ threads' = [threads EXCEPT ![t] = IdleThread]
  /\ UNCHANGED <<tableVars, keyVars, processVars, lockVars, st_alloc_lock, main_barrier,
                 history>>

-----------------------------------------------------------------------------
(* vlib processes: cooperative threads of one vlib main loop.  A process     *)
(* runs until it yields or waits; the dispatcher then resumes the processes  *)
(* queued in process_restore_current.                                        *)

NumProcesses == 2
MaxEventType == 1
MaxPending == 1

ProcessIndices == 0..(NumProcesses - 1)
EventTypes == 0..MaxEventType
EventData == {7, 9}

\* nm->current_process_index while no process runs
NoProcess == -1

\* The process nodes: node index -> node, after three nodes of other types
vlib_nodes ==
  [node_index \in {3 + i : i \in ProcessIndices} |->
     [type |-> "VLIB_NODE_TYPE_PROCESS", runtime_index |-> node_index - 3]]

vlib_get_node(node_index) == vlib_nodes[node_index]

NewProcess(runtime_index) ==
  [state |-> "VLIB_PROCESS_STATE_NOT_STARTED",
   node_index |-> runtime_index + 3,
   event_type_pool |-> {},
   one_time_event_type_bitmap |-> {},
   non_empty_event_type_bitmap |-> {},
   pending_event_data_by_type_index |-> [t \in EventTypes |-> <<>>],
   event_resume_pending |-> 0,
   with_type_index |-> 0,
   data_vector |-> <<>>]

InitProcesses ==
  node_main =
    [processes |-> [i \in ProcessIndices |-> NewProcess(i)],
     current_process_index |-> NoProcess,
     process_restore_current |-> <<>>,
     process_restore_next |-> <<>>]

\* The process that is running
vlib_get_current_process == node_main.processes[node_main.current_process_index]

\* The process gives the processor back to the dispatcher (clib_longjmp to
\* return_longjmp)
ProcessSuspends(nm) == [nm EXCEPT !.current_process_index = NoProcess]

vlib_process_maybe_free_event_type(p, t) ==
  IF t \in p.one_time_event_type_bitmap
  THEN [p EXCEPT !.event_type_pool = @ \ {t},
                 !.one_time_event_type_bitmap = @ \ {t}]
  ELSE p

\* The process after vlib_process_get_events_helper; data_vector is the
\* caller's vector, handed in empty
vlib_process_get_events_helper(p, t) ==
  vlib_process_maybe_free_event_type(
    [p EXCEPT !.non_empty_event_type_bitmap = @ \ {t},
              !.data_vector = p.pending_event_data_by_type_index[t],
              !.pending_event_data_by_type_index[t] = <<>>], t)

\* One turn of the loop of vlib_process_wait_for_one_time_event, entered at
\* the call and again at every resumption: node_main after it
vlib_process_wait_for_one_time_event_loop(nm, runtime_index, with_type_index) ==
  LET p == nm.processes[runtime_index]
  IN IF with_type_index \in p.non_empty_event_type_bitmap
     THEN [nm EXCEPT !.processes[runtime_index] =
             vlib_process_get_events_helper(p, with_type_index)]
     ELSE ProcessSuspends(
            [nm EXCEPT !.processes[runtime_index] =
               [p EXCEPT !.state = "VLIB_PROCESS_STATE_WAIT_FOR_ONE_TIME_EVENT",
                         !.with_type_index = with_type_index]])

\* node_main after vlib_process_signal_event_helper for one data element, with
\* the element the caller then writes.  No process waits with a clock, so no
\* timer is on the wheel to stop.
vlib_process_signal_event_helper(nm, runtime_index, t, data) ==
  LET p == nm.processes[runtime_index]
      add_to_pending ==
        /\ p.state \in {"VLIB_PROCESS_STATE_WAIT_FOR_EVENT",
                        "VLIB_PROCESS_STATE_WAIT_FOR_EVENT_OR_CLOCK"}
        /\ nm.current_process_index # runtime_index
      restore == add_to_pending /\ p.event_resume_pending = 0
  IN [nm EXCEPT
        !.processes[runtime_index] =
          [p EXCEPT !.pending_event_data_by_type_index[t] = Append(@, data),
                    !.non_empty_event_type_bitmap = @ \cup {t},
                    !.event_resume_pending = IF restore THEN 1 ELSE @],
        !.process_restore_current =
          IF restore
          THEN Append(@, [runtime_index |-> runtime_index,
                          reason |-> "VLIB_PROCESS_RESTORE_REASON_EVENT"])
          ELSE @]

ProcessStep(nm) ==
  /\ node_main' = nm
  /\ UNCHANGED <<tableVars, keyVars, lockVars, allocVars>>

\* The dispatcher starts a process
vlib_process_startup(runtime_index) ==
  /\ node_main.current_process_index = NoProcess
  /\ node_main.processes[runtime_index].state
       = "VLIB_PROCESS_STATE_NOT_STARTED"
  /\ ProcessStep([node_main EXCEPT
       !.current_process_index = runtime_index,
       !.processes[runtime_index].state = "VLIB_PROCESS_STATE_RUNNING"])

\* The running process calls vlib_process_yield
vlib_process_yield ==
  /\ node_main.current_process_index # NoProcess
  /\ LET i == node_main.current_process_index
     IN ProcessStep(ProcessSuspends([node_main EXCEPT
          !.processes[i].state = "VLIB_PROCESS_STATE_YIELD",
          !.process_restore_next =
            Append(@, [runtime_index |-> i,
                       reason |-> "VLIB_PROCESS_RESTORE_REASON_YIELD"])]))

\* The running process makes a one-time event type of its own
\* (vlib_current_process_wait_for_one_time_event, first half); pool_get hands
\* out any free index
vlib_process_create_one_time_event ==
  /\ node_main.current_process_index # NoProcess
  /\ LET i == node_main.current_process_index
     IN \E t \in EventTypes \ node_main.processes[i].event_type_pool :
          ProcessStep([node_main EXCEPT
            !.processes[i].event_type_pool = @ \cup {t},
            !.processes[i].one_time_event_type_bitmap = @ \cup {t}])

\* The running process calls vlib_process_wait_for_one_time_event
vlib_process_wait_for_one_time_event(with_type_index) ==
  /\ node_main.current_process_index # NoProcess
  /\ with_type_index \in vlib_get_current_process.event_type_pool
  /\ ProcessStep(vlib_process_wait_for_one_time_event_loop(
       node_main, node_main.current_process_index, with_type_index))

\* The running process calls vlib_process_wait_for_event
vlib_process_wait_for_event ==
  /\ node_main.current_process_index # NoProcess
  /\ LET i == node_main.current_process_index
     IN IF node_main.processes[i].non_empty_event_type_bitmap = {}
        THEN ProcessStep(ProcessSuspends([node_main EXCEPT
               !.processes[i].state = "VLIB_PROCESS_STATE_WAIT_FOR_EVENT"]))
        ELSE ProcessStep(node_main)

\* The running process, or a node while no process runs, calls
\* vlib_process_signal_one_time_event
vlib_process_signal_one_time_event(node_index, type_index, data) ==
  LET n == vlib_get_node(node_index)
      p == node_main.processes[n.runtime_index]
  IN /\ n.type = "VLIB_NODE_TYPE_PROCESS"
     /\ type_index \in p.event_type_pool
     /\ Len(p.pending_event_data_by_type_index[type_index]) < MaxPending
     /\ ProcessStep(vlib_process_signal_event_helper(
          node_main, n.runtime_index, type_index, data))

\* The dispatcher resumes the process at the head of process_restore_current,
\* which process_restore_next becomes once it is empty: the process goes on
\* where it suspended
dispatch_suspended_process ==
  LET swap == node_main.process_restore_current = <<>>
      current == IF swap THEN node_main.process_restore_next
                 ELSE node_main.process_restore_current
      i == Head(current).runtime_index
      p == node_main.processes[i]
      nm == [node_main EXCEPT
               !.process_restore_current = Tail(current),
               !.process_restore_next = IF swap THEN <<>> ELSE @,
               !.current_process_index = i,
               !.processes[i].state = "VLIB_PROCESS_STATE_RUNNING",
               !.processes[i].event_resume_pending = 0]
  IN /\ node_main.current_process_index = NoProcess
     /\ current # <<>>
     /\ ProcessStep(
          IF p.state = "VLIB_PROCESS_STATE_WAIT_FOR_ONE_TIME_EVENT"
          THEN vlib_process_wait_for_one_time_event_loop(nm, i,
                                                         p.with_type_index)
          ELSE nm)

-----------------------------------------------------------------------------
(* Specifications *)

\* session_lookup_init, then the default namespace's local table
InitTables ==
  /\ fib_index_to_table_index =
       [fp \in FibProtos |-> IF fp = FIB_PROTOCOL_IP4 THEN <<0>> ELSE <<1>>]
  /\ session_tables =
       [i \in {0, 1, 2} |->
          IF i = 0 THEN NewSessionTable(FIB_PROTOCOL_IP4)
          ELSE IF i = 1 THEN NewSessionTable(FIB_PROTOCOL_IP6)
          ELSE [NewSessionTable(FIB_PROTOCOL_MAX) EXCEPT
                  !.is_local = TRUE, !.appns_index = <<0>>]]
  /\ srtg = <<>>
  /\ call = Idle
  /\ InitLocks
  /\ InitThreads
  /\ InitProcesses

InitKeys == kout = [ss |-> NoKey, listener |-> NoKey, proxy |-> NoKey]

Init ==
  /\ InitTables
  /\ InitKeys
  /\ kin = [is_ip4 |-> TRUE, lcl |-> IP4_ANY, rmt |-> IP4_ANY, lcl_port |-> 0,
            rmt_port |-> 0, proto |-> 0]

\* Rules the control plane installs: for one protocol, local address 10.1.1.1
\* (2001:db8::1), every remote address and port
RuleActions ==
  {SESSION_RULES_TABLE_ACTION_DROP, SESSION_RULES_TABLE_ACTION_ALLOW,
   AppWithListener}

RuleArgs(is_ip4) ==
  {[appns_index |-> ns, scope |-> SESSION_RULE_SCOPE_GLOBAL,
    transport_proto |-> proto,
    table_args |->
      [lcl |-> Prefix(IF is_ip4 THEN FIB_PROTOCOL_IP4 ELSE FIB_PROTOCOL_IP6,
                      LclAddr(is_ip4), AddrLen(is_ip4)),
       rmt |-> Prefix(IF is_ip4 THEN FIB_PROTOCOL_IP4 ELSE FIB_PROTOCOL_IP6,
                      AnyAddr(is_ip4), 0),
       lcl_port |-> 0, rmt_port |-> 0, action_index |-> action,
       is_add |-> is_add]] :
     ns \in {0}, proto \in TransportProtos, action \in RuleActions,
     is_add \in BOOLEAN}

Next ==
  \/ /\ call = Idle
     /\ \E is_ip4 \in BOOLEAN :
          \E tc \in OpenConnections(is_ip4), value \in SessionHandles :
            session_lookup_add_connection(tc, value)
  \/ /\ call = Idle
     /\ \E is_ip4 \in BOOLEAN :
          \E tc \in CloseConnections(is_ip4) : session_lookup_del_connection(tc)
  \/ /\ call = Idle
     /\ \E is_ip4 \in BOOLEAN :
          \E tc \in OpenConnections(is_ip4), value \in HalfOpenHandles :
            session_lookup_add_half_open(tc, value)
  \/ /\ call = Idle
     /\ \E is_ip4 \in BOOLEAN :
          \E tc \in CloseConnections(is_ip4) : session_lookup_del_half_open(tc)
  \/ /\ call = Idle
     /\ \E is_ip4 \in BOOLEAN, table_index \in FibTableIndices :
          \E sep \in SessionEndpoints(is_ip4) :
            /\ TableHasFamily(session_tables[table_index], is_ip4)
            /\ session_lookup_add_session_endpoint(table_index, sep,
                                                   ListenerHandle(sep))
  \/ /\ call = Idle
     /\ \E is_ip4 \in BOOLEAN, table_index \in FibTableIndices :
          \E sep \in SessionEndpoints(is_ip4) :
            /\ TableHasFamily(session_tables[table_index], is_ip4)
            /\ session_lookup_del_session_endpoint(table_index, sep)
  \/ /\ call = Idle
     /\ \E is_ip4 \in BOOLEAN :
          \E args \in RuleArgs(is_ip4) : vnet_session_rule_add_del(args)
  \/ /\ call = Idle
     /\ \E is_ip4 \in BOOLEAN, thread_index \in ThreadIndices :
          \E tc \in LookupConnections(is_ip4) :
            LookupConnectionWt(tc, thread_index, SESSION_LOOKUP_RESULT_NONE)
  \/ /\ call = Idle
     /\ \E is_ip4 \in BOOLEAN :
          \E tc \in LookupConnections(is_ip4) : LookupConnection(tc)
  \/ /\ call = Idle
     /\ \E is_ip4 \in BOOLEAN, use_wildcard \in BOOLEAN :
          \E sep \in LookupEndpoints(is_ip4) :
            LookupListenerFib(sep, use_wildcard)
  \/ /\ call = Idle
     /\ \E is_ip4 \in BOOLEAN, table_index \in FibTableIndices :
          \E sep \in SessionEndpoints(is_ip4) :
            /\ TableHasFamily(session_tables[table_index], is_ip4)
            /\ LookupListener(table_index, sep)
  \/ /\ call = Idle
     /\ \E is_ip4 \in BOOLEAN, table_index \in FibTableIndices :
          \E sep \in SessionEndpoints(is_ip4) :
            /\ TableHasFamily(session_tables[table_index], is_ip4)
            /\ LookupListenerWildcard(table_index, sep)
  \/ CallerContinues

Spec == Init /\ [][Next]_vars

\* The key encoders applied to every input tuple
InitKeySpec ==
  InitTables /\ InitKeys /\ \E is_ip4 \in BOOLEAN : kin \in KeyInputs(is_ip4)

NextKeySpec == MakeSsKv \/ MakeListenerKv \/ MakeProxyKv

KeySpec == InitKeySpec /\ [][NextKeySpec]_vars

\* Threads stepping through session_table_get_or_alloc and the lock-free
\* reader, in every interleaving
NextAlloc ==
  \/ main_barrier_sync
  \/ main_barrier_release
  \/ \E t \in Workers : worker_barrier_park(t)
  \/ \E t \in Workers : worker_barrier_resume(t)
  \/ \E t \in Threads, fib_proto \in FibProtos, fib_index \in NewFibIndices :
       get_or_alloc_call(t, fib_proto, fib_index)
  \/ \E t \in Threads : get_or_alloc_is_alloced(t)
  \/ \E t \in Threads : get_or_alloc_needs_sync(t)
  \/ \E t \in Threads : get_or_alloc_workers_sync(t)
  \/ \E t \in Threads : get_or_alloc_spinlock_lock(t)
  \/ \E t \in Threads : get_or_alloc_recheck(t)
  \/ \E t \in Threads : get_or_alloc_alloc(t)
  \/ \E t \in Threads : get_or_alloc_init(t)
  \/ \E t \in Threads : get_or_alloc_publish(t)
  \/ \E t \in Threads : get_or_alloc_spinlock_unlock(t)
  \/ \E t \in Threads : get_or_alloc_workers_continue(t)
  \/ \E t \in Threads : get_or_alloc_return(t)
  \/ \E t \in Workers, fib_proto \in FibProtos, fib_index \in NewFibIndices :
       get_for_fib_index_call(t, fib_proto, fib_index)
  \/ \E t \in Workers : get_for_fib_index_vec_len(t)
  \/ \E t \in Workers : get_for_fib_index_vec_elt(t)
  \/ \E t \in Workers : get_for_fib_index_return(t)

AllocSpec == Init /\ [][NextAlloc]_vars

\* Fib indices whose tables come and go, and those named by lookups and
\* removals: the same and one that never has a table
LifeFibIndices == 1..MaxNewFibIndex
LifeLookupFibIndices == 1..(MaxNewFibIndex + 1)

\* The namespaces that are created and removed: all but the default one
LifeNamespaces == (DOMAIN app_namespaces) \ {0}

\* Session 5 of thread 1
LifeHandle == SessionHandle(U32(1), U32(5))

\* The connection 10.1.1.1:80 <-> 10.0.0.2:43210 over TCP under a fib index
LifeConnection(is_ip4, fib_index) ==
  Connection(is_ip4, fib_index, LclAddr(is_ip4), RmtAddr(is_ip4), 80, 43210,
             TRANSPORT_PROTO_TCP)

\* The endpoint 10.1.1.1:80 over TCP under a fib index
LifeEndpoint(is_ip4, fib_index) ==
  SessionEndpoint(is_ip4, fib_index, LclAddr(is_ip4), 80, TRANSPORT_PROTO_TCP)

LookupResults ==
  {SESSION_LOOKUP_RESULT_NONE, SESSION_LOOKUP_RESULT_WRONG_THREAD,
   SESSION_LOOKUP_RESULT_FILTERED}

\* Tables come and go: namespaces attach once and release, connections and
\* half-opens are added under fib indices with and without a table, and every
\* lookup and removal is called under every fib index
NextLife ==
  \/ /\ call = Idle
     /\ \E appns_index \in LifeNamespaces :
          /\ ~AppnsAttached(appns_index)
          /\ session_lookup_set_tables_appns(appns_index)
  \/ /\ call = Idle
     /\ \E appns_index \in LifeNamespaces, fib_proto \in FibProtos :
          session_lookup_table_cleanup(fib_proto,
            app_namespace_get_fib_index(app_namespaces[appns_index], fib_proto),
            appns_index)
  \/ /\ call = Idle
     /\ \E is_ip4 \in BOOLEAN, fib_index \in LifeFibIndices :
          session_lookup_add_connection(LifeConnection(is_ip4, fib_index),
                                        LifeHandle)
  \/ /\ call = Idle
     /\ \E is_ip4 \in BOOLEAN, fib_index \in LifeLookupFibIndices :
          session_lookup_del_connection(LifeConnection(is_ip4, fib_index))
  \/ /\ call = Idle
     /\ \E is_ip4 \in BOOLEAN, fib_index \in LifeFibIndices :
          \E value \in HalfOpenHandles :
            session_lookup_add_half_open(LifeConnection(is_ip4, fib_index),
                                         value)
  \/ /\ call = Idle
     /\ \E is_ip4 \in BOOLEAN, fib_index \in LifeLookupFibIndices :
          session_lookup_del_half_open(LifeConnection(is_ip4, fib_index))
  \/ /\ call = Idle
     /\ \E is_ip4 \in BOOLEAN, fib_index \in LifeFibIndices :
          LET sep == LifeEndpoint(is_ip4, fib_index)
              table_index == session_lookup_get_index_for_fib(
                               fib_index_to_table_index,
                               IF is_ip4 THEN FIB_PROTOCOL_IP4 ELSE FIB_PROTOCOL_IP6,
                               fib_index)
          IN /\ table_index \in DOMAIN session_tables
             /\ session_lookup_add_session_endpoint(table_index, sep,
                                                    ListenerHandle(sep))
  \/ /\ call = Idle
     /\ \E is_ip4 \in BOOLEAN, fib_index \in LifeLookupFibIndices :
          session_lookup_del_session_endpoint2(LifeEndpoint(is_ip4, fib_index))
  \/ /\ call = Idle
     /\ \E is_ip4 \in BOOLEAN, fib_index \in LifeLookupFibIndices :
          \E thread_index \in ThreadIndices, result \in LookupResults :
            LookupConnectionWt(LifeConnection(is_ip4, fib_index), thread_index,
                               result)
  \/ /\ call = Idle
     /\ \E is_ip4 \in BOOLEAN, fib_index \in LifeLookupFibIndices :
          LookupConnection(LifeConnection(is_ip4, fib_index))
  \/ /\ call = Idle
     /\ \E is_ip4 \in BOOLEAN, fib_index \in LifeLookupFibIndices :
          LookupSafe(LifeConnection(is_ip4, fib_index))
  \/ /\ call = Idle
     /\ \E is_ip4 \in BOOLEAN, fib_index \in LifeLookupFibIndices :
          Lookup6Tuple(LifeConnection(is_ip4, fib_index))
  \/ /\ call = Idle
     /\ \E is_ip4 \in BOOLEAN, fib_index \in LifeLookupFibIndices :
          LookupHalfOpenHandle(LifeConnection(is_ip4, fib_index))
  \/ /\ call = Idle
     /\ \E is_ip4 \in BOOLEAN, fib_index \in LifeLookupFibIndices :
          LookupListenerFib(LifeEndpoint(is_ip4, fib_index), TRUE)
  \/ CallerContinues

LifeSpec == Init /\ [][NextLife]_vars

\* 127.0.0.1 and ::1
IP4_LOOPBACK == <<127, 256>>
IP6_LOOPBACK == <<U64_ZERO, <<0, 0, 0, 256>> >>
LoopbackAddr(is_ip4) == IF is_ip4 THEN IP4_LOOPBACK ELSE IP6_LOOPBACK

\* The local table of the default namespace, and no table
LocalTableIndex == app_namespaces[0].local_table_index
LocalLookupTableIndices == {LocalTableIndex, SESSION_TABLE_INVALID_INDEX}

\* Endpoints bound in the local table: any-address and loopback, with and
\* without a port
LocalEndpoints(is_ip4) ==
  {SessionEndpoint(is_ip4, 0, ip, port, proto) :
     ip \in {AnyAddr(is_ip4), LoopbackAddr(is_ip4)}, port \in LclPorts,
     proto \in TransportProtos}

\* Endpoints that same-host connects look up: those and 10.1.1.1
\* (2001:db8::1)
LocalLookupEndpoints(is_ip4) ==
  LocalEndpoints(is_ip4)
  \cup {SessionEndpoint(is_ip4, 0, LclAddr(is_ip4), port, proto) :
          port \in LclPorts, proto \in TransportProtos}

\* Local-scope rules of the default namespace: connects of one protocol to
\* port 80 of every address
LocalRuleArgs(is_ip4) ==
  {[appns_index |-> 0, scope |-> SESSION_RULE_SCOPE_LOCAL,
    transport_proto |-> proto,
    table_args |->
      [lcl |-> Prefix(IF is_ip4 THEN FIB_PROTOCOL_IP4 ELSE FIB_PROTOCOL_IP6,
                      AnyAddr(is_ip4), 0),
       rmt |-> Prefix(IF is_ip4 THEN FIB_PROTOCOL_IP4 ELSE FIB_PROTOCOL_IP6,
                      AnyAddr(is_ip4), 0),
       lcl_port |-> 0, rmt_port |-> 80, action_index |-> action,
       is_add |-> is_add]] :
     proto \in TransportProtos, action \in RuleActions, is_add \in BOOLEAN}

\* Same-host dispatch: listeners are bound in and removed from the local
\* table, local-scope rules are installed and removed, and endpoints are
\* looked up in it
NextLocal ==
  \/ /\ call = Idle
     /\ \E is_ip4 \in BOOLEAN, table_index \in LocalLookupTableIndices :
          \E sep \in LocalEndpoints(is_ip4) :
            session_lookup_add_session_endpoint(table_index, sep,
                                                ListenerHandle(sep))
  \/ /\ call = Idle
     /\ \E is_ip4 \in BOOLEAN, table_index \in LocalLookupTableIndices :
          \E sep \in LocalEndpoints(is_ip4) :
            session_lookup_del_session_endpoint(table_index, sep)
  \/ /\ call = Idle
     /\ \E is_ip4 \in BOOLEAN :
          \E args \in LocalRuleArgs(is_ip4) : vnet_session_rule_add_del(args)
  \/ /\ call = Idle
     /\ \E is_ip4 \in BOOLEAN, table_index \in LocalLookupTableIndices :
          \E sep \in LocalLookupEndpoints(is_ip4) :
            LookupLocalEndpoint(table_index, sep)
  \/ /\ call = Idle
     /\ \E is_ip4 \in BOOLEAN, table_index \in LocalLookupTableIndices :
          \E sep \in LocalLookupEndpoints(is_ip4), use_rules \in BOOLEAN :
            LookupEndpointListener(table_index, sep, use_rules)
  \/ CallerContinues

LocalSpec == Init /\ [][NextLocal]_vars

\* Both address families side by side under fib index 0.  Transport
\* protocols of the entries and lookups:
FamilyProtos == {TRANSPORT_PROTO_TCP}

\* The connection 10.1.1.1:80 <-> 10.0.0.2:43210 and its IPv6 counterpart
FamilyConnections(is_ip4) ==
  {Connection(is_ip4, 0, LclAddr(is_ip4), RmtAddr(is_ip4), 80, 43210, proto) :
     proto \in FamilyProtos}

\* Tuples looked up: the connection, and the tuple of a packet to another
\* local port
FamilyLookupConnections(is_ip4) ==
  FamilyConnections(is_ip4)
  \cup {Connection(is_ip4, 0, LclAddr(is_ip4), RmtAddr(is_ip4), 0, 43210,
                   proto) : proto \in FamilyProtos}

\* Listeners of a fib table (own address or any address) and of the local
\* table (loopback or any address), with and without a port
FamilyEndpoints(is_ip4, is_local) ==
  {SessionEndpoint(is_ip4, 0, ip, port, proto) :
     ip \in {AnyAddr(is_ip4),
             IF is_local THEN LoopbackAddr(is_ip4) ELSE LclAddr(is_ip4)},
     port \in LclPorts, proto \in FamilyProtos}

\* The table an endpoint is bound in: the family's fib table or the local
\* table of the default namespace
FamilyTableIndex(is_ip4, is_local) ==
  IF is_local THEN LocalTableIndex
  ELSE session_lookup_get_index_for_fib(fib_index_to_table_index,
         IF is_ip4 THEN FIB_PROTOCOL_IP4 ELSE FIB_PROTOCOL_IP6, 0)

FamilyRuleArgs(is_ip4) ==
  {args \in RuleArgs(is_ip4) \cup LocalRuleArgs(is_ip4) :
     args.transport_proto \in FamilyProtos}

NextFamily ==
  \/ /\ call = Idle
     /\ \E is_ip4 \in BOOLEAN :
          \E tc \in FamilyConnections(is_ip4), value \in SessionHandles :
            session_lookup_add_connection(tc, value)
  \/ /\ call = Idle
     /\ \E is_ip4 \in BOOLEAN :
          \E tc \in FamilyConnections(is_ip4) :
            session_lookup_del_connection(tc)
  \/ /\ call = Idle
     /\ \E is_ip4 \in BOOLEAN :
          \E tc \in FamilyConnections(is_ip4), value \in HalfOpenHandles :
            session_lookup_add_half_open(tc, value)
  \/ /\ call = Idle
     /\ \E is_ip4 \in BOOLEAN :
          \E tc \in FamilyConnections(is_ip4) :
            session_lookup_del_half_open(tc)
  \/ /\ call = Idle
     /\ \E is_ip4 \in BOOLEAN, is_local \in BOOLEAN :
          \E sep \in FamilyEndpoints(is_ip4, is_local) :
            session_lookup_add_session_endpoint(
              FamilyTableIndex(is_ip4, is_local), sep, ListenerHandle(sep))
  \/ /\ call = Idle
     /\ \E is_ip4 \in BOOLEAN, is_local \in BOOLEAN :
          \E sep \in FamilyEndpoints(is_ip4, is_local) :
            session_lookup_del_session_endpoint(
              FamilyTableIndex(is_ip4, is_local), sep)
  \/ /\ call = Idle
     /\ \E is_ip4 \in BOOLEAN :
          \E args \in FamilyRuleArgs(is_ip4) : vnet_session_rule_add_del(args)
  \/ /\ call = Idle
     /\ \E is_ip4 \in BOOLEAN, thread_index \in ThreadIndices :
          \E tc \in FamilyLookupConnections(is_ip4) :
            LookupConnectionWt(tc, thread_index, SESSION_LOOKUP_RESULT_NONE)
  \/ /\ call = Idle
     /\ \E is_ip4 \in BOOLEAN :
          \E tc \in FamilyLookupConnections(is_ip4) : LookupConnection(tc)
  \/ /\ call = Idle
     /\ \E is_ip4 \in BOOLEAN :
          \E tc \in FamilyLookupConnections(is_ip4) : LookupSafe(tc)
  \/ /\ call = Idle
     /\ \E is_ip4 \in BOOLEAN, use_wildcard \in BOOLEAN :
          \E sep \in FamilyEndpoints(is_ip4, FALSE) :
            LookupListenerFib(sep, use_wildcard)
  \/ /\ call = Idle
     /\ \E is_ip4 \in BOOLEAN :
          \E sep \in FamilyEndpoints(is_ip4, TRUE)
                       \cup FamilyEndpoints(is_ip4, FALSE) :
            LookupLocalEndpoint(LocalTableIndex, sep)
  \/ /\ call = Idle
     /\ \E is_ip4 \in BOOLEAN :
          \E tc \in FamilyLookupConnections(is_ip4) : Lookup6Tuple(tc)
  \/ CallerContinues

FamilySpec == Init /\ [][NextFamily]_vars

\* An application index that names no application
AppUnknown == U32(3)

\* Rules that redirect every packet of one protocol for 10.1.1.1
\* (2001:db8::1) to an application: one that listens, one that does not, one
\* that does not exist
RedirectRuleArgs(is_ip4) ==
  {[appns_index |-> 0, scope |-> SESSION_RULE_SCOPE_GLOBAL,
    transport_proto |-> proto,
    table_args |->
      [lcl |-> Prefix(IF is_ip4 THEN FIB_PROTOCOL_IP4 ELSE FIB_PROTOCOL_IP6,
                      LclAddr(is_ip4), AddrLen(is_ip4)),
       rmt |-> Prefix(IF is_ip4 THEN FIB_PROTOCOL_IP4 ELSE FIB_PROTOCOL_IP6,
                      AnyAddr(is_ip4), 0),
       lcl_port |-> 0, rmt_port |-> 0, action_index |-> action,
       is_add |-> is_add]] :
     proto \in TransportProtos,
     action \in {AppWithListener, AppWithoutListener, AppUnknown},
     is_add \in BOOLEAN}

\* Redirection: listeners are bound, redirecting rules installed and removed,
\* and tuples looked up by every connection lookup
NextRedirect ==
  \/ /\ call = Idle
     /\ \E is_ip4 \in BOOLEAN, table_index \in FibTableIndices :
          \E sep \in SessionEndpoints(is_ip4) :
            /\ TableHasFamily(session_tables[table_index], is_ip4)
            /\ session_lookup_add_session_endpoint(table_index, sep,
                                                   ListenerHandle(sep))
  \/ /\ call = Idle
     /\ \E is_ip4 \in BOOLEAN :
          \E args \in RedirectRuleArgs(is_ip4) :
            vnet_session_rule_add_del(args)
  \/ /\ call = Idle
     /\ \E is_ip4 \in BOOLEAN, thread_index \in ThreadIndices :
          \E tc \in OpenConnections(is_ip4), result \in LookupResults :
            LookupConnectionWt(tc, thread_index, result)
  \/ /\ call = Idle
     /\ \E is_ip4 \in BOOLEAN :
          \E tc \in OpenConnections(is_ip4) : LookupConnection(tc)
  \/ /\ call = Idle
     /\ \E is_ip4 \in BOOLEAN :
          \E tc \in OpenConnections(is_ip4) : LookupSafe(tc)
  \/ CallerContinues

RedirectSpec == Init /\ [][NextRedirect]_vars

\* Rule requests of the control plane, valid and invalid: the default
\* namespace, namespace 1 whose fib has no session table and an index that is
\* no namespace; every scope up to 4; TCP and a transport that is neither
\* TCP nor UDP.  Namespace 1 has no local table and takes no local-only request.
AppnsUnknown == 3
TRANSPORT_PROTO_OTHER == 2
RuleRequestRvs == {"SESSION_E_NONE", "SESSION_E_INVALID"}

RuleRequests(is_ip4) ==
  {r \in
     {[appns_index |-> ns, scope |-> scope, transport_proto |-> proto,
       table_args |->
         [lcl |-> Prefix(IF is_ip4 THEN FIB_PROTOCOL_IP4 ELSE FIB_PROTOCOL_IP6,
                         LclAddr(is_ip4), AddrLen(is_ip4)),
          rmt |-> Prefix(IF is_ip4 THEN FIB_PROTOCOL_IP4 ELSE FIB_PROTOCOL_IP6,
                         AnyAddr(is_ip4), 0),
          lcl_port |-> 0, rmt_port |-> 0, action_index |-> action,
          is_add |-> is_add]] :
        ns \in {0, 1, AppnsUnknown}, scope \in 0..4,
        proto \in {TRANSPORT_PROTO_TCP, TRANSPORT_PROTO_OTHER},
        action \in {SESSION_RULES_TABLE_ACTION_DROP},
        is_add \in BOOLEAN} :
     ~(r.appns_index = 1 /\ r.scope = SESSION_RULE_SCOPE_LOCAL)}

NextRule ==
  \/ /\ call = Idle
     /\ \E is_ip4 \in BOOLEAN, g_rv \in RuleRequestRvs, l_rv \in RuleRequestRvs :
          \E args \in RuleRequests(is_ip4) :
            vnet_session_rule_add_del_rv(args, g_rv, l_rv)
  \/ CallerContinues

RuleSpec == Init /\ [][NextRule]_vars

-----------------------------------------------------------------------------
(* Vocabulary of the properties: what the tables hold for a tuple or an     *)
(* endpoint, read from the hashes and the rules themselves                  *)

FibProtoOf(is_ip4) == IF is_ip4 THEN FIB_PROTOCOL_IP4 ELSE FIB_PROTOCOL_IP6

\* The table a fib index resolves to, NULL when it has none
TableOfFib(is_ip4, fib_index) ==
  session_table_get_for_fib_index(fib_index_to_table_index, session_tables,
                                  FibProtoOf(is_ip4), fib_index)

SessionHash(st, is_ip4) ==
  IF is_ip4 THEN st.v4_session_hash ELSE st.v6_session_hash

HalfOpenHash(st, is_ip4) ==
  IF is_ip4 THEN st.v4_half_open_hash ELSE st.v6_half_open_hash

ConnectionKey(tc) ==
  IF tc.is_ip4
  THEN make_v4_ss_kv(tc.lcl_ip, tc.rmt_ip, tc.lcl_port, tc.rmt_port, tc.proto)
  ELSE make_v6_ss_kv(tc.lcl_ip, tc.rmt_ip, tc.lcl_port, tc.rmt_port, tc.proto)

ListenerKey(is_ip4, ip, port, proto) ==
  IF is_ip4 THEN make_v4_listener_kv(ip, port, proto)
  ELSE make_v6_listener_kv(ip, port, proto)

ProxyKey(is_ip4, ip, proto) ==
  IF is_ip4 THEN make_v4_proxy_kv(ip, proto) ELSE make_v6_proxy_kv(ip, proto)

\* The two halves of a 64-bit handle
OwnerThread(value) == <<value[3], value[4]>>
SessionIndex(value) == <<value[1], value[2]>>

\* What a lookup hands back for a stored value
ConnectionOf(proto, value) ==
  [kind |-> "connection", proto |-> proto, thread_index |-> OwnerThread(value),
   session_index |-> SessionIndex(value)]

HalfOpenOf(proto, value) ==
  [kind |-> "half_open", proto |-> proto, conn_index |-> SessionIndex(value)]

ListenSessionOf(value) ==
  [kind |-> "session", thread_index |-> U32_ZERO,
   session_index |-> SessionIndex(value)]

ListenerOf(proto, value) ==
  [kind |-> "listener", proto |-> proto, session_index |-> SessionIndex(value)]

Established(tc) ==
  LET st == TableOfFib(tc.is_ip4, tc.fib_index)
  IN st # NULL /\ ConnectionKey(tc) \in DOMAIN SessionHash(st, tc.is_ip4)

HalfOpen(tc) ==
  LET st == TableOfFib(tc.is_ip4, tc.fib_index)
  IN st # NULL /\ ConnectionKey(tc) \in DOMAIN HalfOpenHash(st, tc.is_ip4)

\* The action indices of the rules of the tuple's table that match the tuple
MatchingRuleActions(tc) ==
  LET st == TableOfFib(tc.is_ip4, tc.fib_index)
  IN IF st = NULL THEN {}
     ELSE IF st.srtg_handle = SESSION_SRTG_HANDLE_INVALID THEN {}
     ELSE {r.action_index :
             r \in {q \in srtg[st.srtg_handle][FibProtoOf(tc.is_ip4)] :
                      RuleMatches(q, tc.proto, tc.lcl_ip, tc.rmt_ip,
                                  tc.lcl_port, tc.rmt_port)}}

\* A matching rule that is neither ALLOW nor INVALID
RuleDecides(tc) ==
  \E a \in MatchingRuleActions(tc) :
    a \notin {SESSION_RULES_TABLE_ACTION_ALLOW,
              SESSION_RULES_TABLE_INVALID_INDEX}

\* The keys of a listener search in the order of their probes
ListenerProbes(is_ip4, ip, port, proto, use_wildcard) ==
  <<ListenerKey(is_ip4, ip, port, proto)>>
  \o (IF use_wildcard
      THEN <<ListenerKey(is_ip4, AnyAddr(is_ip4), port, proto)>>
      ELSE <<>>)
  \o <<ProxyKey(is_ip4, ip, proto)>>

\* The value under the first probe that hits, as a set of at most one value
FirstHit(h, probes) ==
  LET hits == {i \in 1..Len(probes) : probes[i] \in DOMAIN h}
  IN IF hits = {} THEN {}
     ELSE {h[probes[CHOOSE i \in hits : \A j \in hits : i <= j]]}

\* The listener values bound for the tuple's local endpoint
ListenerHits(tc) ==
  LET st == TableOfFib(tc.is_ip4, tc.fib_index)
  IN IF st = NULL THEN {}
     ELSE FirstHit(SessionHash(st, tc.is_ip4),
                   ListenerProbes(tc.is_ip4, tc.lcl_ip, tc.lcl_port, tc.proto,
                                  TRUE))

\* What the listener stage of the fast path hands back for the tuple
ListenerStage(tc) ==
  IF ListenerHits(tc) = {} THEN NULL
  ELSE ListenerOf(tc.proto, CHOOSE v \in ListenerHits(tc) : TRUE)

\* The fast-path lookup of a tuple by a thread whose result variable holds
\* SESSION_LOOKUP_RESULT_NONE
LookupBy(tc, thread_index) ==
  IF tc.is_ip4
  THEN session_lookup_connection_wt4(tc.fib_index, tc.lcl_ip, tc.rmt_ip,
         tc.lcl_port, tc.rmt_port, tc.proto, thread_index,
         SESSION_LOOKUP_RESULT_NONE)
  ELSE session_lookup_connection_wt6(tc.fib_index, tc.lcl_ip, tc.rmt_ip,
         tc.lcl_port, tc.rmt_port, tc.proto, thread_index,
         SESSION_LOOKUP_RESULT_NONE)

NotFound == [rv |-> NULL, result |-> SESSION_LOOKUP_RESULT_NONE]

\* The call that just returned is a fast-path lookup
WtCall ==
  call.op \in {"session_lookup_connection_wt4",
               "session_lookup_connection_wt6"}

\* The call that just returned is a listener search
ListenerCall ==
  call.op \in {"session_lookup_listener4", "session_lookup_listener6",
               "session_lookup_listener", "session_lookup_listener_wildcard"}

ListenerCallByFib ==
  call.op \in {"session_lookup_listener4", "session_lookup_listener6"}

ListenerCallTable ==
  IF ListenerCallByFib THEN TableOfFib(call.sep.is_ip4, call.sep.fib_index)
  ELSE session_table_get(session_tables, call.table_index)

ListenerCallWildcard ==
  IF ListenerCallByFib THEN call.use_wildcard
  ELSE call.op = "session_lookup_listener_wildcard"

ListenerCallHash == SessionHash(ListenerCallTable, call.sep.is_ip4)

\* The keys of the endpoint searched: as given, with the address zeroed, with
\* the port zeroed, with both zeroed
ExactKey ==
  ListenerKey(call.sep.is_ip4, call.sep.ip, call.sep.port,
              call.sep.transport_proto)

AnyAddressKey ==
  ListenerKey(call.sep.is_ip4, AnyAddr(call.sep.is_ip4), call.sep.port,
              call.sep.transport_proto)

OwnAddressPortZeroKey ==
  ListenerKey(call.sep.is_ip4, call.sep.ip, 0, call.sep.transport_proto)

AnyAddressPortZeroKey ==
  ListenerKey(call.sep.is_ip4, AnyAddr(call.sep.is_ip4), 0,
              call.sep.transport_proto)

-----------------------------------------------------------------------------
(* Properties *)

\* C1: round trip of established entries.  Right after
\* session_lookup_add_connection(T, H) the fast-path lookup of T by the thread
\* encoded in H returns the connection of the session encoded in H; right
\* after session_lookup_del_connection(T) the lookup of T by any thread finds
\* nothing, provided no half-open entry, rule or listener matches T.
C1_RoundTrip ==
  /\ (call.op = "session_lookup_add_connection") =>
       LookupBy(call.tc, OwnerThread(call.value)) =
         [rv |-> ConnectionOf(call.tc.proto, call.value),
          result |-> SESSION_LOOKUP_RESULT_NONE]
  /\ (/\ call.op = "session_lookup_del_connection"
      /\ ~HalfOpen(call.tc)
      /\ MatchingRuleActions(call.tc) = {}
      /\ ListenerHits(call.tc) = {}) =>
       \A thread_index \in ThreadIndices :
         LookupBy(call.tc, thread_index) = NotFound

\* An established entry was deleted and nothing else matches its tuple
C1_Witness ==
  /\ call.op = "session_lookup_del_connection"
  /\ call.rv = 0
  /\ ~HalfOpen(call.tc)
  /\ MatchingRuleActions(call.tc) = {}
  /\ ListenerHits(call.tc) = {}
  /\ EntryCount > 0

\* C2: thread affinity.  A fast-path lookup that hits an established entry of
\* another thread sets result to WRONG_THREAD and returns no connection,
\* whatever else matches the tuple; one that hits an entry of the calling
\* thread returns that session's connection.
C2_ThreadAffinity ==
  (WtCall /\ Established(call.tc)) =>
    LET st == TableOfFib(call.tc.is_ip4, call.tc.fib_index)
        value == SessionHash(st, call.tc.is_ip4)[ConnectionKey(call.tc)]
    IN IF OwnerThread(value) # call.thread_index
       THEN /\ call.result = SESSION_LOOKUP_RESULT_WRONG_THREAD
            /\ call.rv = NULL
       ELSE call.rv = ConnectionOf(call.tc.proto, value)

\* A lookup by the wrong thread of a tuple that is half-open as well
C2_Witness ==
  /\ WtCall
  /\ Established(call.tc)
  /\ HalfOpen(call.tc)
  /\ call.result = SESSION_LOOKUP_RESULT_WRONG_THREAD

\* C3: the fast-path lookup returns at the first stage that matches, in the
\* order established, half-open, rules, listeners: an established entry
\* yields a connection or WRONG_THREAD; else a half-open entry yields the
\* half-open connection; else a rule that is neither ALLOW nor INVALID yields
\* FILTERED or an application's listener; else the listener search with
\* wildcard decides.
C3_PriorityOrder ==
  (WtCall /\ TableOfFib(call.tc.is_ip4, call.tc.fib_index) # NULL) =>
    IF Established(call.tc)
    THEN \/ call.rv.kind = "connection"
         \/ /\ call.rv = NULL
            /\ call.result = SESSION_LOOKUP_RESULT_WRONG_THREAD
    ELSE IF HalfOpen(call.tc)
    THEN call.rv.kind = "half_open"
    ELSE IF RuleDecides(call.tc)
    THEN \/ /\ call.rv = NULL
            /\ call.result = SESSION_LOOKUP_RESULT_FILTERED
         \/ /\ SESSION_RULES_TABLE_ACTION_DROP \notin
                 MatchingRuleActions(call.tc)
            /\ call.rv \in {NULL, ListenerOf(call.tc.proto,
                                             U64FromU32(AppListenerIndex))}
            /\ call.result = call.result_in
    ELSE /\ call.rv = ListenerStage(call.tc)
         /\ call.result = call.result_in

\* A lookup that an ALLOW rule matched and a bound listener answered
C3_Witness ==
  /\ WtCall
  /\ ~Established(call.tc)
  /\ ~HalfOpen(call.tc)
  /\ SESSION_RULES_TABLE_ACTION_ALLOW \in MatchingRuleActions(call.tc)
  /\ call.rv.kind = "listener"

\* C4: half-open precedence.  With no established entry and a half-open entry
\* for the tuple, the fast-path lookup returns the half-open connection to
\* every calling thread and leaves result alone, whatever the rules say.
C4_HalfOpenPrecedence ==
  (WtCall /\ ~Established(call.tc) /\ HalfOpen(call.tc)) =>
    LET st == TableOfFib(call.tc.is_ip4, call.tc.fib_index)
        value == HalfOpenHash(st, call.tc.is_ip4)[ConnectionKey(call.tc)]
    IN /\ call.rv = HalfOpenOf(call.tc.proto, value)
       /\ call.result = call.result_in

\* A lookup of a half-open tuple that a DROP rule matches
C4_Witness ==
  /\ WtCall
  /\ ~Established(call.tc)
  /\ HalfOpen(call.tc)
  /\ SESSION_RULES_TABLE_ACTION_DROP \in MatchingRuleActions(call.tc)
  /\ call.rv.kind = "half_open"

\* C5: rule short-circuit.  With no established and no half-open entry for
\* the tuple and a matching DROP rule, the fast-path lookup sets result to
\* FILTERED and returns no connection, whatever listeners are bound.
C5_DropShortCircuit ==
  (/\ WtCall
   /\ ~Established(call.tc)
   /\ ~HalfOpen(call.tc)
   /\ SESSION_RULES_TABLE_ACTION_DROP \in MatchingRuleActions(call.tc)) =>
    /\ call.rv = NULL
    /\ call.result = SESSION_LOOKUP_RESULT_FILTERED

\* A filtered lookup of a tuple whose local endpoint has a listener
C5_Witness ==
  /\ WtCall
  /\ ~Established(call.tc)
  /\ ~HalfOpen(call.tc)
  /\ SESSION_RULES_TABLE_ACTION_DROP \in MatchingRuleActions(call.tc)
  /\ ListenerHits(call.tc) # {}
  /\ call.result = SESSION_LOOKUP_RESULT_FILTERED

\* C6: rule redirect and fall-through.  With no established and no half-open
\* entry for the tuple, a matching rule whose action is an application index
\* makes the fast-path lookup return the listener connection of that
\* application's listen session, never a connection named by the index
\* itself; with no matching rule, or ALLOW, the listener search decides.
C6_RedirectAndFallThrough ==
  (/\ WtCall
   /\ TableOfFib(call.tc.is_ip4, call.tc.fib_index) # NULL
   /\ ~Established(call.tc)
   /\ ~HalfOpen(call.tc)) =>
    LET actions == MatchingRuleActions(call.tc)
        apps == actions \ {SESSION_RULES_TABLE_ACTION_DROP,
                           SESSION_RULES_TABLE_ACTION_ALLOW,
                           SESSION_RULES_TABLE_INVALID_INDEX}
    IN /\ \A a \in apps :
            LET s == app_worker_first_listener(a, FibProtoOf(call.tc.is_ip4),
                                               call.tc.proto)
            IN /\ call.rv = IF s = NULL THEN NULL
                            ELSE [kind |-> "listener", proto |-> call.tc.proto,
                                  session_index |-> s.session_index]
               /\ call.rv # ListenerOf(call.tc.proto, U64FromU32(a))
               /\ call.result = call.result_in
       /\ actions \subseteq {SESSION_RULES_TABLE_ACTION_ALLOW,
                             SESSION_RULES_TABLE_INVALID_INDEX} =>
            /\ call.rv = ListenerStage(call.tc)
            /\ call.result = call.result_in

\* A lookup that a rule redirected to an application's listener while another
\* listener is bound at the tuple's local endpoint
C6_Witness ==
  /\ WtCall
  /\ ~Established(call.tc)
  /\ ~HalfOpen(call.tc)
  /\ AppWithListener \in MatchingRuleActions(call.tc)
  /\ ListenerHits(call.tc) # {}
  /\ call.rv = ListenerOf(call.tc.proto, U64FromU32(AppListenerIndex))

\* C7: listener fallback order.  A listener search returns the listener under
\* the exact key if there is one, else (only with wildcard allowed) the one
\* under the address-zeroed key, else the one under the proxy key, else
\* nothing.
C7_ListenerOrder ==
  (ListenerCall /\ ListenerCallTable # NULL) =>
    LET h == ListenerCallHash
        proxy == ProxyKey(call.sep.is_ip4, call.sep.ip,
                          call.sep.transport_proto)
    IN IF ExactKey \in DOMAIN h
       THEN call.rv = ListenSessionOf(h[ExactKey])
       ELSE IF ListenerCallWildcard /\ AnyAddressKey \in DOMAIN h
       THEN call.rv = ListenSessionOf(h[AnyAddressKey])
       ELSE IF proxy \in DOMAIN h
       THEN call.rv = ListenSessionOf(h[proxy])
       ELSE call.rv = NULL

\* A wildcard search of an endpoint bound both exactly and under the zero
\* address
C7_Witness ==
  /\ ListenerCall
  /\ ListenerCallTable # NULL
  /\ ListenerCallWildcard
  /\ ExactKey # AnyAddressKey
  /\ {ExactKey, AnyAddressKey} \subseteq DOMAIN ListenerCallHash
  /\ call.rv = ListenSessionOf(ListenerCallHash[ExactKey])

\* C8: wildcard gating.  When the one entry of the table is a listener under
\* the zero address, a search for a non-zero address with its port and
\* protocol returns it with wildcard allowed and nothing without.
C8_WildcardGating ==
  (/\ ListenerCall
   /\ ListenerCallTable # NULL
   /\ call.sep.ip # AnyAddr(call.sep.is_ip4)
   /\ DOMAIN ListenerCallHash = {AnyAddressKey}) =>
    IF ListenerCallWildcard
    THEN call.rv = ListenSessionOf(ListenerCallHash[AnyAddressKey])
    ELSE call.rv = NULL

\* A search without wildcard that misses the zero-address listener
C8_Witness ==
  /\ ListenerCall
  /\ ListenerCallTable # NULL
  /\ call.sep.ip # AnyAddr(call.sep.is_ip4)
  /\ DOMAIN ListenerCallHash = {AnyAddressKey}
  /\ ~ListenerCallWildcard
  /\ call.rv = NULL

ZeroRemote(is_ip4, key) ==
  IF is_ip4
  THEN << <<key[1][1], key[1][2], 0, 0>>,
          <<key[2][1], 0, key[2][3], key[2][4]>> >>
  ELSE << key[1], key[2], U64_ZERO, U64_ZERO,
          <<key[5][1], 0, key[5][3], key[5][4]>>, key[6] >>

\* C10: key algebra.  For every tuple of either family, the connection key
\* with exactly its remote address and remote port zeroed is the listener key
\* of the tuple's local address, local port and protocol.
C10_ConnectionToListenerKey ==
  (kout.ss # NoKey /\ kout.listener # NoKey) =>
    ZeroRemote(kin.is_ip4, kout.ss) = kout.listener

\* Both keys of a tuple whose remote address and port are non-zero
C10_Witness ==
  /\ kout.ss # NoKey
  /\ kout.listener # NoKey
  /\ kin.rmt # AnyAddr(kin.is_ip4)
  /\ kin.rmt_port # 0
  /\ kin.lcl_port # 0
  /\ kout.ss # kout.listener

\* A listener key with the local address and both ports zeroed
ZeroLocalAndPorts(is_ip4, key) ==
  IF is_ip4
  THEN << <<0, 0, key[1][3], key[1][4]>>,
          <<0, 0, key[2][3], key[2][4]>> >>
  ELSE << U64_ZERO, U64_ZERO, key[3], key[4],
          <<0, 0, key[5][3], key[5][4]>>, key[6] >>

\* A listener key with both ports zeroed and the local address kept
ZeroPorts(is_ip4, key) ==
  IF is_ip4
  THEN << key[1], <<0, 0, key[2][3], key[2][4]>> >>
  ELSE << key[1], key[2], key[3], key[4],
          <<0, 0, key[5][3], key[5][4]>>, key[6] >>

SsKeyOf(t) ==
  IF t.is_ip4
  THEN make_v4_ss_kv(t.lcl, t.rmt, t.lcl_port, t.rmt_port, t.proto)
  ELSE make_v6_ss_kv(t.lcl, t.rmt, t.lcl_port, t.rmt_port, t.proto)

\* The 64-bit word of a connection key that packs the ports and the protocol
PortsWord(is_ip4, key) == IF is_ip4 THEN key[2] ELSE key[5]

\* C12: connection keys are canonical and injective.  The key of a tuple is
\* the key of another tuple of the same family exactly when the two agree on
\* local address, remote address, local port, remote port and protocol; the
\* local port, the remote port and the protocol occupy disjoint 16-bit fields
\* of one word, so tuples that differ only in protocol have different keys.
C12_ConnectionKeyInjective ==
  (kout.ss # NoKey) =>
    /\ \A other \in KeyInputs(kin.is_ip4) :
         (SsKeyOf(other) = kout.ss) <=> (other = kin)
    /\ PortsWord(kin.is_ip4, kout.ss)
         = <<kin.lcl_port, kin.rmt_port, kin.proto, 0>>

\* The key of a tuple with distinct non-zero ports whose protocol is not the
\* only one: the same addresses and ports under another protocol exist among
\* the tuples compared
C12_Witness ==
  /\ kout.ss # NoKey
  /\ kin.lcl_port = 80
  /\ kin.rmt_port = LimbMax
  /\ kin.proto = 1
  /\ kin.lcl # kin.rmt
  /\ [kin EXCEPT !.proto = 0] \in KeyInputs(kin.is_ip4)
  /\ SsKeyOf([kin EXCEPT !.proto = 0]) # kout.ss

\* The table index the registry holds for (fib_proto, fib_index), ~0 for none
RegistrySlot(fib_proto, fib_index) ==
  session_lookup_get_index_for_fib(fib_index_to_table_index, fib_proto,
                                   fib_index)

\* The tables session_lookup_init made, which no call allocated
InitTableIndices == {0, 1, 2}

\* C13: registry uniqueness under concurrency.  In every interleaving of
\* session_table_get_or_alloc calls by the main thread and the workers, no
\* (fib_proto, fib_index) pair has two tables allocated for it, a pair that
\* has a table is never allocated another, the pool holds no table beyond
\* those, and every call that returned for a pair returned the one table the
\* registry holds for it.
C13_RegistryUniqueness ==
  /\ \A a \in history.allocated, b \in history.allocated :
       (a[1] = b[1] /\ a[2] = b[2]) => a[3] = b[3]
  /\ \A a \in history.allocated :
       /\ a[3] \notin InitTableIndices
       /\ RegistrySlot(a[1], a[2]) \in {SESSION_TABLE_INVALID_INDEX, a[3]}
  /\ DOMAIN session_tables =
       InitTableIndices \cup {a[3] : a \in history.allocated}
  /\ \A r \in history.returned : RegistrySlot(r[1], r[2]) = r[3]

\* A worker that saw the pair without a table, took the barrier and the lock
\* and stands at the second check, now that another caller has allocated the
\* table and returned it
C13_Witness ==
  \E t \in Workers :
    /\ threads[t].pc = "recheck"
    /\ \E a \in history.allocated :
         /\ a[1] = threads[t].fib_proto
         /\ a[2] = threads[t].fib_index
         /\ a \in history.returned
         /\ RegistrySlot(a[1], a[2]) = a[3]

\* The worker whose code reads or writes the registry and the pool: not
\* parked at the barrier, not waiting in vlib_workers_sync, for st_alloc_lock
\* or in vlib_workers_continue
Running(u) ==
  threads[u].pc \notin
    {"parked", "workers_sync", "spinlock_lock", "workers_continue"}

\* C14: publish after initialization.  A registry slot that holds a table
\* index maps to a pool element session_table_init has run on; the thread
\* about to write a slot has allocated and initialized its table, holds
\* st_alloc_lock if it is not the main thread under its barrier, and runs
\* while the main thread is idle and no other worker runs; and the lock-free
\* reader never returns a table that is not initialized.
C14_PublishAfterInit ==
  /\ \A fib_proto \in FibProtos, fib_index \in NewFibIndices :
       LET table_index == RegistrySlot(fib_proto, fib_index)
       IN table_index # SESSION_TABLE_INVALID_INDEX =>
            /\ table_index \in DOMAIN session_tables
            /\ TableInitialized(session_tables[table_index])
  /\ \A t \in Threads :
       threads[t].pc \in {"alloc", "init", "publish"} =>
         /\ threads[t].pc = "publish" =>
              TableInitialized(session_tables[threads[t].st])
         /\ threads[t].needs_sync => st_alloc_lock = {t}
         /\ \A u \in Workers \ {t} : ~Running(u)
         /\ t # MainThread => threads[MainThread].pc = "idle"
  /\ \A t \in Workers :
       (threads[t].pc = "reader_return"
          /\ threads[t].st # SESSION_TABLE_INVALID_INDEX) =>
         /\ threads[t].st \in DOMAIN session_tables
         /\ TableInitialized(session_tables[threads[t].st])

\* A worker's lock-free read returns a table a get_or_alloc call allocated,
\* while another worker waits in vlib_workers_sync for that reader to park
C14_Witness ==
  \E t \in Workers, u \in Workers :
    /\ threads[t].pc = "reader_return"
    /\ <<threads[t].fib_proto, threads[t].fib_index, threads[t].st>>
         \in history.allocated
    /\ threads[u].pc = "workers_sync"

\* C18: the lookup that is not thread-checked against the fast path.  After
\* session_lookup_connection4/6 of a tuple, for every calling thread of the
\* fast path on the same tables: where the fast path returns a connection
\* the variant returned the same one; where the fast path returns none with
\* result FILTERED or NONE the variant returned none; and where the fast path
\* reports WRONG_THREAD the variant returned the established session's
\* connection on the thread that owns it.
C18_ConnectionRefinesFastPath ==
  (call.op = "session_lookup_connection") =>
    \A thread_index \in ThreadIndices :
      LET f == LookupBy(call.tc, thread_index)
          st == TableOfFib(call.tc.is_ip4, call.tc.fib_index)
      IN /\ f.rv # NULL => call.rv = f.rv
         /\ (f.rv = NULL /\ f.result \in {SESSION_LOOKUP_RESULT_FILTERED,
                                         SESSION_LOOKUP_RESULT_NONE})
              => call.rv = NULL
         /\ f.result = SESSION_LOOKUP_RESULT_WRONG_THREAD =>
              /\ Established(call.tc)
              /\ call.rv = ConnectionOf(call.tc.proto,
                   SessionHash(st, call.tc.is_ip4)[ConnectionKey(call.tc)])

\* The variant has returned the connection of a session of thread 2, which
\* the fast path hands to thread 2 and refuses thread 1
C18_Witness ==
  /\ call.op = "session_lookup_connection"
  /\ Established(call.tc)
  /\ call.rv # NULL
  /\ call.rv.kind = "connection"
  /\ call.rv.thread_index = U32(2)
  /\ LookupBy(call.tc, U32(1)).result = SESSION_LOOKUP_RESULT_WRONG_THREAD
  /\ LookupBy(call.tc, U32(2)).rv = call.rv

\* The calls that look up and the calls that remove
ReadOps ==
  {"session_lookup_connection", "session_lookup_connection_wt4",
   "session_lookup_connection_wt6", "session_lookup_safe",
   "session_lookup_6tuple", "session_lookup_listener4",
   "session_lookup_listener6", "session_lookup_half_open_handle"}

RemovalOps ==
  {"session_lookup_del_connection", "session_lookup_del_half_open",
   "session_lookup_del_session_endpoint2"}

\* The calls that may allocate a table
AllocatingOps ==
  {"session_lookup_add_connection", "session_lookup_add_half_open",
   "session_lookup_set_tables_appns"}

\* The table of the fib index a lookup or removal call names, NULL for none
CallFibTable(c) ==
  IF c.op \in {"session_lookup_listener4", "session_lookup_listener6",
               "session_lookup_del_session_endpoint2"}
  THEN TableOfFib(c.sep.is_ip4, c.sep.fib_index)
  ELSE TableOfFib(c.tc.is_ip4, c.tc.fib_index)

\* The call returned what it returns when the fib index has no table
ReturnedNone(c) ==
  IF c.op \in RemovalOps THEN c.rv = -1
  ELSE IF c.op = "session_lookup_half_open_handle"
  THEN c.rv = HALF_OPEN_LOOKUP_INVALID_VALUE
  ELSE c.rv = NULL

\* The slots of the registry that hold a table index
RegistryPairs ==
  {<<fib_proto, fib_index>> \in FibProtos \X LifeLookupFibIndices :
     RegistrySlot(fib_proto, fib_index) # SESSION_TABLE_INVALID_INDEX}

Namespaces(appns_index) == {appns_index[j] : j \in DOMAIN appns_index}

\* The lock count of a fib index, 0 when the vector does not reach it
LockCount(lock_count, fib_proto, fib_index) ==
  IF vec_len(lock_count[fib_proto]) > fib_index
  THEN vec_elt(lock_count[fib_proto], fib_index) ELSE 0

NoStageMatches(tc) ==
  /\ ~Established(tc)
  /\ ~HalfOpen(tc)
  /\ ~RuleDecides(tc)
  /\ ListenerHits(tc) = {}

\* C17: result classification on a miss.  After a fast-path lookup
\* (session_lookup_connection_wt4/6) of a tuple whose fib index has no table,
\* or that no stage of the search matches, the call has returned no
\* connection and the caller's result variable holds
\* SESSION_LOOKUP_RESULT_NONE, whatever it held before the call.
C17_MissResultNone ==
  (WtCall /\ (TableOfFib(call.tc.is_ip4, call.tc.fib_index) = NULL
                \/ NoStageMatches(call.tc))) =>
    /\ call.rv = NULL
    /\ call.result = SESSION_LOOKUP_RESULT_NONE

\* What the code does on a miss: no connection, and the result variable left
\* as the caller passed it
C17_MissResultUntouched ==
  (WtCall /\ (TableOfFib(call.tc.is_ip4, call.tc.fib_index) = NULL
                \/ NoStageMatches(call.tc))) =>
    /\ call.rv = NULL
    /\ call.result = call.result_in

\* A miss under a fib index with no table, by a caller whose result variable
\* held WRONG_THREAD
C17_Witness ==
  /\ WtCall
  /\ TableOfFib(call.tc.is_ip4, call.tc.fib_index) = NULL
  /\ call.result_in = SESSION_LOOKUP_RESULT_WRONG_THREAD
  /\ call.rv = NULL


-----------------------------------------------------------------------------
(* Established and half-open maps                                           *)

\* A hash of a table of a pool; empty for a table the pool does not hold
TableHash(pool, table_index, field) ==
  IF table_index \in DOMAIN pool /\ field \in DOMAIN pool[table_index]
  THEN pool[table_index][field] ELSE EmptyHash

EstablishedHashes == {"v4_session_hash", "v6_session_hash"}
HalfOpenHashes == {"v4_half_open_hash", "v6_half_open_hash"}

HalfOpenHashOf(tc) ==
  IF tc.is_ip4 THEN "v4_half_open_hash" ELSE "v6_half_open_hash"
EstablishedHashOf(tc) ==
  IF tc.is_ip4 THEN "v4_session_hash" ELSE "v6_session_hash"

\* Two hashes agree on every key but one
SameButKey(h1, h2, key) ==
  /\ (DOMAIN h1) \ {key} = (DOMAIN h2) \ {key}
  /\ \A k \in (DOMAIN h1) \ {key} : h1[k] = h2[k]

\* The hash `field` is the same in every table before and after a step
HashUnchanged(field) ==
  \A i \in (DOMAIN session_tables) \cup (DOMAIN session_tables') :
    TableHash(session_tables', i, field) = TableHash(session_tables, i, field)

\* C20: established and half-open independence.  A step of
\* session_lookup_add_half_open or session_lookup_del_half_open leaves both
\* established maps and the other family's half-open map of every table as
\* they were, and changes the half-open map of the tuple's family at the
\* tuple's key only; a step of session_lookup_add_connection or
\* session_lookup_del_connection leaves both half-open maps of every table as
\* they were and changes the established map of the tuple's family at the
\* tuple's key only; session_lookup_half_open_handle changes no table and
\* returns the value the half-open map of the tuple's family holds for the
\* tuple, whatever the established map holds.
C20_Independence ==
  [][LET c == call'
         kv == ConnectionKey(c.tc)
     IN /\ c.op \in {"session_lookup_add_half_open",
                     "session_lookup_del_half_open"} =>
             /\ \A f \in EstablishedHashes \cup
                           (HalfOpenHashes \ {HalfOpenHashOf(c.tc)}) :
                  HashUnchanged(f)
             /\ \A i \in (DOMAIN session_tables) \cup (DOMAIN session_tables') :
                  SameButKey(TableHash(session_tables', i, HalfOpenHashOf(c.tc)),
                             TableHash(session_tables, i, HalfOpenHashOf(c.tc)),
                             kv)
        /\ c.op \in {"session_lookup_add_connection",
                     "session_lookup_del_connection"} =>
             /\ \A f \in HalfOpenHashes \cup
                           (EstablishedHashes \ {EstablishedHashOf(c.tc)}) :
                  HashUnchanged(f)
             /\ \A i \in (DOMAIN session_tables) \cup (DOMAIN session_tables') :
                  SameButKey(TableHash(session_tables', i,
                                       EstablishedHashOf(c.tc)),
                             TableHash(session_tables, i,
                                       EstablishedHashOf(c.tc)),
                             kv)
        /\ c.op = "session_lookup_half_open_handle" =>
             /\ session_tables' = session_tables
             /\ LET h == TableHash(session_tables,
                           session_table_get_for_connection(
                             fib_index_to_table_index, c.tc),
                           HalfOpenHashOf(c.tc))
                IN c.rv = IF kv \in DOMAIN h THEN h[kv]
                          ELSE HALF_OPEN_LOOKUP_INVALID_VALUE]_vars

\* A tuple that was in both maps of a table has been removed from the
\* half-open map: the established entry is in place with its value
C20_Witness ==
  /\ call.op = "session_lookup_del_half_open"
  /\ call.rv = 0
  /\ LET table_index == session_table_get_for_connection(
                          fib_index_to_table_index, call.tc)
         kv == ConnectionKey(call.tc)
     IN /\ table_index \in DOMAIN session_tables
        /\ kv \notin DOMAIN TableHash(session_tables, table_index,
                                      HalfOpenHashOf(call.tc))
        /\ kv \in DOMAIN TableHash(session_tables, table_index,
                                   EstablishedHashOf(call.tc))
        /\ TableHash(session_tables, table_index,
                     EstablishedHashOf(call.tc))[kv] = LifeHandle


-----------------------------------------------------------------------------
(* Local endpoint lookup order                                              *)

\* The handle of a policy-first lookup of an endpoint in a table whose last
\* probe is `last_key`: the rules decide when the table has rules and their
\* action is neither ALLOW nor none; else the first hit of the exact listener
\* key, the address-zeroed key for a loopback address, and `last_key`
PolicyFirst(table_index, sep, last_key) ==
  LET st == session_table_get(session_tables, table_index)
      hits == {r \in srtg[st.srtg_handle][FibProtoOf(sep.is_ip4)] :
                 /\ r.transport_proto = sep.transport_proto
                 /\ PrefixMatches(r.rmt, sep.ip)
                 /\ PortMatches(r.rmt_port, sep.port)}
      decided == {r \in hits :
                    /\ \A o \in hits : RuleWeight(o) <= RuleWeight(r)
                    /\ r.action_index # SESSION_RULES_TABLE_ACTION_ALLOW}
      is_loopback == IF sep.is_ip4 THEN ip4_is_local_host(sep.ip)
                     ELSE ip6_is_local_host(sep.ip)
      exact == ListenerKey(sep.is_ip4, sep.ip, sep.port, sep.transport_proto)
      any == ListenerKey(sep.is_ip4, AnyAddr(sep.is_ip4), sep.port,
                         sep.transport_proto)
      probes == IF is_loopback THEN <<exact, any, last_key>>
                ELSE <<exact, last_key>>
      found == FirstHit(SessionHash(st, sep.is_ip4), probes)
  IN IF st = NULL THEN {SESSION_INVALID_HANDLE}
     ELSE IF st.srtg_handle # SESSION_SRTG_HANDLE_INVALID /\ decided # {}
     THEN {IF r.action_index = SESSION_RULES_TABLE_ACTION_DROP
           THEN SESSION_DROP_HANDLE ELSE U64FromU32(r.action_index) :
             r \in decided}
     ELSE IF found # {} THEN found
     ELSE {SESSION_INVALID_HANDLE}

\* C19: local endpoint lookup is policy-first.  session_lookup_local_endpoint
\* returns the handle of the rules' action when the table has rules and the
\* action is neither ALLOW nor invalid; otherwise the value of the first key
\* held among the exact listener key, the address-zeroed key (probed only for
\* a loopback address) and the proxy key of the any-address for the
\* endpoint's transport protocol; the invalid handle if none is held.
C19_LocalEndpointPolicyFirst ==
  call.op = "session_lookup_local_endpoint" =>
    call.rv \in PolicyFirst(call.table_index, call.sep,
                            ProxyKey(call.sep.is_ip4, AnyAddr(call.sep.is_ip4),
                                     call.sep.transport_proto))

\* The same order with the all-zero key as the last probe: the proxy key of
\* the any-address for transport protocol 0, whatever the endpoint's protocol
LocalEndpointLastProbeAllZero ==
  call.op = "session_lookup_local_endpoint" =>
    call.rv \in PolicyFirst(call.table_index, call.sep,
                            ProxyKey(call.sep.is_ip4, AnyAddr(call.sep.is_ip4),
                                     0))

\* A UDP endpoint was looked up in a local table that has no rules and whose
\* only entry for the family is the UDP proxy entry of the any-address, and
\* the lookup returned the invalid handle
C19_Witness ==
  /\ call.op = "session_lookup_local_endpoint"
  /\ call.table_index = LocalTableIndex
  /\ call.sep.transport_proto = TRANSPORT_PROTO_UDP
  /\ call.sep.ip = LclAddr(call.sep.is_ip4)
  /\ call.sep.port = 80
  /\ session_tables[LocalTableIndex].srtg_handle = SESSION_SRTG_HANDLE_INVALID
  /\ DOMAIN SessionHash(session_tables[LocalTableIndex], call.sep.is_ip4)
       = {ProxyKey(call.sep.is_ip4, AnyAddr(call.sep.is_ip4),
                   TRANSPORT_PROTO_UDP)}
  /\ call.rv = SESSION_INVALID_HANDLE


-----------------------------------------------------------------------------
(* Half-open operations without a table                                     *)

\* Every table, registry slot, rule and lock count is as it was
NothingChanged ==
  /\ session_tables' = session_tables
  /\ fib_index_to_table_index' = fib_index_to_table_index
  /\ srtg' = srtg
  /\ fib_index_to_lock_count' = fib_index_to_lock_count

\* C21: half-open operations report a missing table by return value.  A step
\* of session_lookup_del_half_open for a tuple whose fib index has no table
\* returns -1 and changes nothing; a step of session_lookup_half_open_handle
\* changes nothing, returns the all-ones invalid value when the fib index has
\* no table, and returns the stored handle when the tuple is in the half-open
\* map of its table and family and the invalid value when it is not.
C21_HalfOpenMissingTable ==
  [][LET c == call'
         st == TableOfFib(c.tc.is_ip4, c.tc.fib_index)
         kv == ConnectionKey(c.tc)
     IN /\ (c.op = "session_lookup_del_half_open" /\ st = NULL) =>
             c.rv = -1 /\ NothingChanged
        /\ c.op = "session_lookup_half_open_handle" =>
             /\ NothingChanged
             /\ st = NULL => c.rv = HALF_OPEN_LOOKUP_INVALID_VALUE
             /\ (st # NULL /\ kv \in DOMAIN HalfOpenHash(st, c.tc.is_ip4)) =>
                  /\ c.rv = HalfOpenHash(st, c.tc.is_ip4)[kv]
                  /\ c.rv # HALF_OPEN_LOOKUP_INVALID_VALUE
             /\ (st # NULL /\ kv \notin DOMAIN HalfOpenHash(st, c.tc.is_ip4))
                  => c.rv = HALF_OPEN_LOOKUP_INVALID_VALUE]_vars

\* The handle of a half-open tuple was asked for under the fib index that has
\* no table, while the same tuple is half-open under another fib index
C21_Witness ==
  /\ call.op = "session_lookup_half_open_handle"
  /\ TableOfFib(call.tc.is_ip4, call.tc.fib_index) = NULL
  /\ call.rv = HALF_OPEN_LOOKUP_INVALID_VALUE
  /\ \E fib_index \in LifeFibIndices :
       LET st == TableOfFib(call.tc.is_ip4, fib_index)
       IN /\ st # NULL
          /\ ConnectionKey([call.tc EXCEPT !.fib_index = fib_index])
               \in DOMAIN HalfOpenHash(st, call.tc.is_ip4)


-----------------------------------------------------------------------------
(* Rule action translation                                                  *)

\* Action indices: the three special values, application indices and 0
ActionIndices ==
  RuleActions \cup {SESSION_RULES_TABLE_INVALID_INDEX, AppWithoutListener,
                    U32_ZERO}

\* The action the rules of a local table give for an endpoint, none when the
\* table has no rules table
LocalRulesAction(st, sep) ==
  IF st.srtg_handle = SESSION_SRTG_HANDLE_INVALID
  THEN SESSION_RULES_TABLE_INVALID_INDEX
  ELSE session_rules_table_lookup(st.srtg_handle, FibProtoOf(sep.is_ip4),
                                  sep.transport_proto, AnyAddr(sep.is_ip4),
                                  sep.ip, 0, sep.port)

\* What the hash probes of the local endpoint lookup give for an endpoint
LocalListenerSearch(st, sep) ==
  LET exact == ListenerKey(sep.is_ip4, sep.ip, sep.port, sep.transport_proto)
      any == ListenerKey(sep.is_ip4, AnyAddr(sep.is_ip4), sep.port,
                         sep.transport_proto)
      zero == ListenerKey(sep.is_ip4, AnyAddr(sep.is_ip4), 0, 0)
      is_loopback == IF sep.is_ip4 THEN ip4_is_local_host(sep.ip)
                     ELSE ip6_is_local_host(sep.ip)
      found == FirstHit(SessionHash(st, sep.is_ip4),
                        IF is_loopback THEN <<exact, any, zero>>
                        ELSE <<exact, zero>>)
  IN IF found = {} THEN {SESSION_INVALID_HANDLE} ELSE found

\* C22: rule action translation.  session_lookup_action_to_handle maps DROP
\* to the drop handle, ALLOW and INVALID to the invalid handle and every
\* other action index to itself; session_lookup_action_index_is_valid holds
\* exactly for the action indices that are neither ALLOW nor INVALID; and a
\* local endpoint lookup returns the handle of the rules' action, whatever
\* listeners are bound, exactly when that action is neither ALLOW nor
\* INVALID, and the result of the listener search otherwise.
C22_ActionTranslation ==
  /\ \A a \in ActionIndices :
       /\ session_lookup_action_to_handle(a) =
            IF a = SESSION_RULES_TABLE_ACTION_DROP THEN SESSION_DROP_HANDLE
            ELSE IF a = SESSION_RULES_TABLE_ACTION_ALLOW
                    \/ a = SESSION_RULES_TABLE_INVALID_INDEX
            THEN SESSION_INVALID_HANDLE
            ELSE <<a[1], a[2], 0, 0>>
       /\ session_lookup_action_index_is_valid(a) <=>
            (a # SESSION_RULES_TABLE_ACTION_ALLOW
               /\ a # SESSION_RULES_TABLE_INVALID_INDEX)
  /\ (call.op = "session_lookup_local_endpoint"
        /\ call.table_index \in DOMAIN session_tables) =>
       LET st == session_tables[call.table_index]
           a == LocalRulesAction(st, call.sep)
       IN IF a = SESSION_RULES_TABLE_ACTION_DROP
          THEN call.rv = SESSION_DROP_HANDLE
          ELSE IF a = SESSION_RULES_TABLE_ACTION_ALLOW
                  \/ a = SESSION_RULES_TABLE_INVALID_INDEX
          THEN call.rv \in LocalListenerSearch(st, call.sep)
          ELSE call.rv = <<a[1], a[2], 0, 0>>

\* A DROP rule has decided a local endpoint lookup for which a listener is
\* bound
C22_Witness ==
  /\ call.op = "session_lookup_local_endpoint"
  /\ call.table_index \in DOMAIN session_tables
  /\ LocalRulesAction(session_tables[call.table_index], call.sep)
       = SESSION_RULES_TABLE_ACTION_DROP
  /\ ListenerKey(call.sep.is_ip4, call.sep.ip, call.sep.port,
                 call.sep.transport_proto)
       \in DOMAIN SessionHash(session_tables[call.table_index],
                              call.sep.is_ip4)
  /\ call.rv = SESSION_DROP_HANDLE


-----------------------------------------------------------------------------
(* Address-family equivalence                                               *)

\* The IPv6 counterpart of an IPv4 address, tuple, endpoint and rule
ToIp6(ip4) ==
  CASE ip4 = IP4_ANY -> IP6_ANY
    [] ip4 = IP4_LCL -> IP6_LCL
    [] ip4 = IP4_RMT -> IP6_RMT
    [] ip4 = IP4_LOOPBACK -> IP6_LOOPBACK

ToTc6(tc) ==
  [tc EXCEPT !.is_ip4 = FALSE, !.lcl_ip = ToIp6(@), !.rmt_ip = ToIp6(@)]

ToSep6(sep) == [sep EXCEPT !.is_ip4 = FALSE, !.ip = ToIp6(@)]

ToPrefix6(pfx) ==
  Prefix(FIB_PROTOCOL_IP6, ToIp6(pfx.addr), IF pfx.len = 0 THEN 0 ELSE 128)

ToRule6(r) == [r EXCEPT !.lcl = ToPrefix6(@), !.rmt = ToPrefix6(@)]

\* The rules of a table for a fib protocol, none without a rules table
RulesOf(st, fib_proto) ==
  IF st.srtg_handle = SESSION_SRTG_HANDLE_INVALID THEN {}
  ELSE srtg[st.srtg_handle][fib_proto]

\* Two hashes hold the same values under the keys of two corresponding
\* lists of keys
SameEntries(h4, keys4, h6, keys6) ==
  \A i \in 1..Len(keys4) :
    /\ keys4[i] \in DOMAIN h4 <=> keys6[i] \in DOMAIN h6
    /\ keys4[i] \in DOMAIN h4 => h4[keys4[i]] = h6[keys6[i]]

RECURSIVE SetToSeq(_)
SetToSeq(S) ==
  IF S = {} THEN <<>>
  ELSE LET x == CHOOSE y \in S : TRUE IN <<x>> \o SetToSeq(S \ {x})

\* The IPv6 side of the tables holds the counterpart of every IPv4 entry and
\* nothing else: established and half-open connections and listeners of the
\* fib tables of fib index 0, listeners of the local table, and the rules of
\* both
FamiliesCorrespond ==
  LET st4 == TableOfFib(TRUE, 0)
      st6 == TableOfFib(FALSE, 0)
      lt == session_tables[LocalTableIndex]
      tcs == SetToSeq(FamilyConnections(TRUE))
      seps == SetToSeq(FamilyEndpoints(TRUE, FALSE))
      lseps == SetToSeq(FamilyEndpoints(TRUE, TRUE))
      Keys4(ts) == [i \in 1..Len(ts) |-> ConnectionKey(ts[i])]
      Keys6(ts) == [i \in 1..Len(ts) |-> ConnectionKey(ToTc6(ts[i]))]
      LKeys4(ss) == [i \in 1..Len(ss) |->
                       ListenerKey(TRUE, ss[i].ip, ss[i].port,
                                   ss[i].transport_proto)]
      LKeys6(ss) == [i \in 1..Len(ss) |->
                       ListenerKey(FALSE, ToIp6(ss[i].ip), ss[i].port,
                                   ss[i].transport_proto)]
  IN /\ SameEntries(st4.v4_session_hash, Keys4(tcs) \o LKeys4(seps),
                    st6.v6_session_hash, Keys6(tcs) \o LKeys6(seps))
     /\ SameEntries(st4.v4_half_open_hash, Keys4(tcs),
                    st6.v6_half_open_hash, Keys6(tcs))
     /\ SameEntries(lt.v4_session_hash, LKeys4(lseps),
                    lt.v6_session_hash, LKeys6(lseps))
     /\ RulesOf(st6, FIB_PROTOCOL_IP6)
          = {ToRule6(r) : r \in RulesOf(st4, FIB_PROTOCOL_IP4)}
     /\ RulesOf(lt, FIB_PROTOCOL_IP6)
          = {ToRule6(r) : r \in RulesOf(lt, FIB_PROTOCOL_IP4)}

\* The stages of a connection lookup of either family, in their order:
\* established (thread-checked by the fast path), half-open (left out by the
\* safe lookup), rules, listeners with the address wildcard.  `kind` is
\* "wt", "connection" or "safe".
LookupStages(kind, tc, thread_index) ==
  LET st == TableOfFib(tc.is_ip4, tc.fib_index)
      kv == ConnectionKey(tc)
      h == SessionHash(st, tc.is_ip4)
      ho == HalfOpenHash(st, tc.is_ip4)
      none == [rv |-> NULL, result |-> SESSION_LOOKUP_RESULT_NONE]
      a == IF st.srtg_handle = SESSION_SRTG_HANDLE_INVALID
           THEN SESSION_RULES_TABLE_INVALID_INDEX
           ELSE session_rules_table_lookup(st.srtg_handle,
                  FibProtoOf(tc.is_ip4), tc.proto, tc.lcl_ip, tc.rmt_ip,
                  tc.lcl_port, tc.rmt_port)
      Hand(s) == IF s = NULL THEN none
                 ELSE IF kind = "safe" THEN [none EXCEPT !.rv = s]
                 ELSE [none EXCEPT !.rv = transport_get_listener(tc.proto, s)]
      hits == FirstHit(h, ListenerProbes(tc.is_ip4, tc.lcl_ip, tc.lcl_port,
                                         tc.proto, TRUE))
  IN IF st = NULL THEN none
     ELSE IF kv \in DOMAIN h
     THEN IF kind = "wt" /\ OwnerThread(h[kv]) # thread_index
          THEN [rv |-> NULL, result |-> SESSION_LOOKUP_RESULT_WRONG_THREAD]
          ELSE IF kind = "safe"
          THEN [none EXCEPT !.rv = session_get_from_handle(h[kv])]
          ELSE [none EXCEPT !.rv = ConnectionOf(tc.proto, h[kv])]
     ELSE IF kind # "safe" /\ kv \in DOMAIN ho
     THEN [none EXCEPT !.rv = HalfOpenOf(tc.proto, ho[kv])]
     ELSE IF a \notin {SESSION_RULES_TABLE_ACTION_ALLOW,
                       SESSION_RULES_TABLE_INVALID_INDEX}
     THEN IF a = SESSION_RULES_TABLE_ACTION_DROP
          THEN [rv |-> NULL,
                result |-> IF kind = "wt" THEN SESSION_LOOKUP_RESULT_FILTERED
                           ELSE SESSION_LOOKUP_RESULT_NONE]
          ELSE Hand(session_lookup_app_listen_session(a,
                      FibProtoOf(tc.is_ip4), tc.proto))
     ELSE IF hits = {} THEN none
     ELSE Hand(ListenSessionOf(CHOOSE v \in hits : TRUE))

\* The safe lookup of a tuple of either family
SafeLookup(tc) ==
  IF tc.is_ip4
  THEN session_lookup_safe4(tc.fib_index, tc.lcl_ip, tc.rmt_ip, tc.lcl_port,
                            tc.rmt_port, tc.proto)
  ELSE session_lookup_safe6(tc.fib_index, tc.lcl_ip, tc.rmt_ip, tc.lcl_port,
                            tc.rmt_port, tc.proto)

\* C23: address-family equivalence.  (1) Every connection lookup that has
\* returned, of either family, returned what the one list of stages gives in
\* which the family selects only the hash, the key encoder and the rules; the
\* listener search returned the first hit of the one list of listener probes
\* and the local endpoint lookup the one policy-first order.  (2) Whenever
\* the IPv6 side of the tables is the counterpart of the IPv4 side, every
\* IPv6 lookup of the counterpart of a tuple or endpoint gives what the IPv4
\* lookup gives: fast path per thread, connection, safe, listener with and
\* without wildcard, local endpoint.
C23_FamilyEquivalence ==
  /\ WtCall =>
       [rv |-> call.rv, result |-> call.result]
         = LookupStages("wt", call.tc, call.thread_index)
  /\ call.op = "session_lookup_connection" =>
       call.rv = LookupStages("connection", call.tc, U32_ZERO).rv
  /\ call.op = "session_lookup_safe" =>
       call.rv = LookupStages("safe", call.tc, U32_ZERO).rv
  /\ ListenerCallByFib =>
       LET hits == FirstHit(ListenerCallHash,
                     ListenerProbes(call.sep.is_ip4, call.sep.ip,
                       call.sep.port, call.sep.transport_proto,
                       call.use_wildcard))
       IN call.rv = IF hits = {} THEN NULL
                    ELSE ListenSessionOf(CHOOSE v \in hits : TRUE)
  /\ call.op = "session_lookup_local_endpoint" =>
       call.rv \in PolicyFirst(call.table_index, call.sep,
                     ListenerKey(call.sep.is_ip4, AnyAddr(call.sep.is_ip4),
                                 0, 0))
  /\ FamiliesCorrespond =>
       /\ \A tc \in FamilyLookupConnections(TRUE) :
            /\ \A thread_index \in ThreadIndices :
                 LookupBy(ToTc6(tc), thread_index) = LookupBy(tc, thread_index)
            /\ session_lookup_connection6(tc.fib_index, ToIp6(tc.lcl_ip),
                 ToIp6(tc.rmt_ip), tc.lcl_port, tc.rmt_port, tc.proto)
                 = session_lookup_connection4(tc.fib_index, tc.lcl_ip,
                     tc.rmt_ip, tc.lcl_port, tc.rmt_port, tc.proto)
            /\ SafeLookup(ToTc6(tc)) = SafeLookup(tc)
       /\ \A sep \in FamilyEndpoints(TRUE, FALSE), use_wildcard \in BOOLEAN :
            session_lookup_listener6(sep.fib_index, ToIp6(sep.ip), sep.port,
              sep.transport_proto, use_wildcard)
              = session_lookup_listener4(sep.fib_index, sep.ip, sep.port,
                  sep.transport_proto, use_wildcard)
       /\ \A sep \in FamilyEndpoints(TRUE, TRUE)
                       \cup FamilyEndpoints(TRUE, FALSE) :
            session_lookup_local_endpoint(LocalTableIndex, ToSep6(sep))
              = session_lookup_local_endpoint(LocalTableIndex, sep)

\* The IPv6 fast path has returned an established connection while the
\* tables hold the same connection for both families
C23_Witness ==
  /\ call.op = "session_lookup_connection_wt6"
  /\ call.rv # NULL
  /\ call.rv.kind = "connection"
  /\ FamiliesCorrespond
  /\ Established(call.tc)
  /\ \E tc \in FamilyConnections(TRUE) :
       ToTc6(tc) = call.tc /\ Established(tc)


-----------------------------------------------------------------------------
(* Listener of an endpoint: round trip and order                            *)

\* After a call that binds or unbinds an endpoint in a table: the listener
\* of the endpoint, looked up without rules, is the handle bound or the
\* invalid handle; the call failed when the table index names no table
EndpointBoundOrUnbound ==
  /\ call.op = "session_lookup_add_session_endpoint" =>
       IF call.table_index \in DOMAIN session_tables
       THEN /\ call.rv = 0
            /\ session_lookup_endpoint_listener(call.table_index, call.sep,
                                                FALSE) = call.value
       ELSE /\ call.rv = -1
            /\ session_lookup_endpoint_listener(call.table_index, call.sep,
                                                FALSE) = SESSION_INVALID_HANDLE
  /\ call.op = "session_lookup_del_session_endpoint" =>
       /\ session_lookup_endpoint_listener(call.table_index, call.sep, FALSE)
            = SESSION_INVALID_HANDLE
       /\ call.table_index \notin DOMAIN session_tables => call.rv = -1

\* C24: listener endpoint round trip.  After a step of
\* session_lookup_add_session_endpoint (table, sep, H) on a table,
\* session_lookup_endpoint_listener (table, sep, 0) returns H; after a step
\* of session_lookup_del_session_endpoint (table, sep) it returns the invalid
\* handle; and a step of either with a table index that names no table
\* returns -1 and changes nothing.
C24_RoundTrip ==
  [][/\ EndpointBoundOrUnbound'
     /\ (/\ call'.op \in {"session_lookup_add_session_endpoint",
                          "session_lookup_del_session_endpoint"}
         /\ call'.table_index \notin DOMAIN session_tables) =>
          call'.rv = -1 /\ NothingChanged]_vars

\* An endpoint that was bound has been unbound while another listener stays
\* bound in the table
C24_Witness ==
  /\ call.op = "session_lookup_del_session_endpoint"
  /\ call.table_index = LocalTableIndex
  /\ call.rv = 0
  /\ TableEntries(session_tables[LocalTableIndex]) = 1
  /\ session_lookup_endpoint_listener(call.table_index, call.sep, FALSE)
       = SESSION_INVALID_HANDLE

\* C25: session_lookup_endpoint_listener returns the handle bound under the
\* exact listener key when there is one, whatever the rules say; otherwise,
\* with use_rules set and a rules table, the handle of the rules' action when
\* that action is neither ALLOW nor INVALID; in every other case the invalid
\* handle, whatever is bound under the any-address or the all-zero key.
C25_EndpointListener ==
  (call.op = "session_lookup_endpoint_listener"
     /\ call.table_index \in DOMAIN session_tables) =>
    LET st == session_tables[call.table_index]
        h == SessionHash(st, call.sep.is_ip4)
        exact == ListenerKey(call.sep.is_ip4, call.sep.ip, call.sep.port,
                             call.sep.transport_proto)
        a == LocalRulesAction(st, call.sep)
    IN IF exact \in DOMAIN h THEN call.rv = h[exact]
       ELSE IF /\ call.use_rules
               /\ a # SESSION_RULES_TABLE_ACTION_ALLOW
               /\ a # SESSION_RULES_TABLE_INVALID_INDEX
       THEN call.rv = IF a = SESSION_RULES_TABLE_ACTION_DROP
                      THEN SESSION_DROP_HANDLE ELSE <<a[1], a[2], 0, 0>>
       ELSE call.rv = SESSION_INVALID_HANDLE

\* The listener of a loopback endpoint was asked for with use_rules set in a
\* table that holds only an any-address listener for its port and a rule
\* that allows it: the invalid handle came back
C25_Witness ==
  /\ call.op = "session_lookup_endpoint_listener"
  /\ call.table_index = LocalTableIndex
  /\ call.use_rules
  /\ call.sep.ip = LoopbackAddr(call.sep.is_ip4)
  /\ LocalRulesAction(session_tables[LocalTableIndex], call.sep)
       = SESSION_RULES_TABLE_ACTION_ALLOW
  /\ ListenerKey(call.sep.is_ip4, AnyAddr(call.sep.is_ip4), call.sep.port,
                 call.sep.transport_proto)
       \in DOMAIN SessionHash(session_tables[LocalTableIndex],
                              call.sep.is_ip4)
  /\ call.rv = SESSION_INVALID_HANDLE


-----------------------------------------------------------------------------
(* Redirection to an application without a listener                         *)

ConnectionLookupCall ==
  WtCall \/ call.op \in {"session_lookup_connection", "session_lookup_safe"}

\* The rules send the tuple to an application that does not exist or has no
\* listener for the tuple's family and protocol
RedirectedNowhere(tc) ==
  /\ MatchingRuleActions(tc) # {}
  /\ \A a \in MatchingRuleActions(tc) :
       /\ a \notin {SESSION_RULES_TABLE_ACTION_DROP,
                    SESSION_RULES_TABLE_ACTION_ALLOW,
                    SESSION_RULES_TABLE_INVALID_INDEX}
       /\ \/ ~application_is_valid(a)
          \/ app_worker_first_listener(a, FibProtoOf(tc.is_ip4), tc.proto)
               = NULL

\* C26: when the tuple is neither established nor half-open and the rules
\* return an application index whose application does not exist or has no
\* listener for (family, proto), the fast path, the connection lookup and the
\* safe lookup return none whatever listener is bound for the destination,
\* and the fast path leaves the caller's result as it was (NONE when the
\* caller passed NONE).
C26_RedirectedNowhere ==
  (/\ ConnectionLookupCall
   /\ TableOfFib(call.tc.is_ip4, call.tc.fib_index) # NULL
   /\ ~Established(call.tc)
   /\ ~HalfOpen(call.tc)
   /\ RedirectedNowhere(call.tc)) =>
    /\ call.rv = NULL
    /\ WtCall => call.result = call.result_in

\* The fast path was sent to an application that does not exist while a
\* listener is bound for the destination: none, result NONE
C26_Witness ==
  /\ WtCall
  /\ MatchingRuleActions(call.tc) = {AppUnknown}
  /\ ListenerHits(call.tc) # {}
  /\ call.rv = NULL
  /\ call.result_in = SESSION_LOOKUP_RESULT_NONE
  /\ call.result = SESSION_LOOKUP_RESULT_NONE


-----------------------------------------------------------------------------
(* Safe lookup                                                              *)

\* The session the rules and listener stages give for a tuple: none on DROP,
\* the application's listen session on a redirect, else the first listener
\* hit with the address wildcard
RulesOrListenerSession(tc) ==
  LET actions == MatchingRuleActions(tc)
      apps == actions \ {SESSION_RULES_TABLE_ACTION_DROP,
                         SESSION_RULES_TABLE_ACTION_ALLOW,
                         SESSION_RULES_TABLE_INVALID_INDEX}
  IN IF SESSION_RULES_TABLE_ACTION_DROP \in actions THEN NULL
     ELSE IF apps # {}
     THEN session_lookup_app_listen_session(CHOOSE a \in apps : TRUE,
            FibProtoOf(tc.is_ip4), tc.proto)
     ELSE IF ListenerHits(tc) = {} THEN NULL
     ELSE ListenSessionOf(CHOOSE v \in ListenerHits(tc) : TRUE)

\* C27: the safe lookup never consults the half-open map.  On an established
\* hit session_lookup_safe4/6 returns the session of the entry on the thread
\* that owns it, whichever thread that is; otherwise it returns what the
\* rules and the listener search give, or none, whether or not the tuple is
\* in the half-open map, and never a half-open connection.
C27_SafeSkipsHalfOpen ==
  (call.op = "session_lookup_safe"
     /\ TableOfFib(call.tc.is_ip4, call.tc.fib_index) # NULL) =>
    LET st == TableOfFib(call.tc.is_ip4, call.tc.fib_index)
        h == SessionHash(st, call.tc.is_ip4)
        kv == ConnectionKey(call.tc)
    IN IF Established(call.tc)
       THEN call.rv = [kind |-> "session",
                       thread_index |-> OwnerThread(h[kv]),
                       session_index |-> SessionIndex(h[kv])]
       ELSE /\ call.rv = RulesOrListenerSession(call.tc)
            /\ call.rv # NULL => call.rv.kind = "session"

\* The safe lookup of a half-open tuple has returned the listener bound for
\* its destination
C27_Witness ==
  /\ call.op = "session_lookup_safe"
  /\ HalfOpen(call.tc)
  /\ ~Established(call.tc)
  /\ ListenerHits(call.tc) # {}
  /\ call.rv # NULL
  /\ call.rv = ListenSessionOf(CHOOSE v \in ListenerHits(call.tc) : TRUE)


-----------------------------------------------------------------------------
(* Exact six-tuple lookup                                                   *)

\* C28: session_lookup_6tuple matches only exact entries.  With a table for
\* the fib index it returns the connection of the established entry under the
\* full tuple key if there is one, else the half-open connection under that
\* key if there is one, else none; whichever rules the table holds and
\* whichever listener or proxy entries sit under other keys, the result is
\* this function of the two entries under the full tuple key alone.
C28_ExactOnly ==
  (call.op = "session_lookup_6tuple"
     /\ TableOfFib(call.tc.is_ip4, call.tc.fib_index) # NULL) =>
    LET st == TableOfFib(call.tc.is_ip4, call.tc.fib_index)
        kv == ConnectionKey(call.tc)
    IN call.rv =
         IF Established(call.tc)
         THEN ConnectionOf(call.tc.proto, SessionHash(st, call.tc.is_ip4)[kv])
         ELSE IF HalfOpen(call.tc)
         THEN HalfOpenOf(call.tc.proto, HalfOpenHash(st, call.tc.is_ip4)[kv])
         ELSE NULL

\* The exact lookup of a tuple in neither hash has returned none although a
\* rule matches the tuple and a listener is bound for its destination
C28_Witness ==
  /\ call.op = "session_lookup_6tuple"
  /\ ~Established(call.tc)
  /\ ~HalfOpen(call.tc)
  /\ MatchingRuleActions(call.tc) # {}
  /\ ListenerHits(call.tc) # {}
  /\ call.rv = NULL


-----------------------------------------------------------------------------
(* Rule requests                                                            *)

RuleCallReturned == call.op = "vnet_session_rule_add_del"

\* The error the checks of vnet_session_rule_add_del give a request, in the
\* order the checks run, "none" when the request passes them all
RuleRejection(args) ==
  IF args.appns_index \notin DOMAIN app_namespaces
  THEN "SESSION_E_INVALID_NS"
  ELSE IF args.scope > 3 THEN "SESSION_E_INVALID"
  ELSE IF args.transport_proto \notin TransportProtos
  THEN "SESSION_E_INVALID"
  ELSE IF /\ args.scope \in {0, 1, 3}
          /\ TableOfFib(args.table_args.rmt.fp_proto = FIB_PROTOCOL_IP4,
               app_namespace_get_fib_index(app_namespaces[args.appns_index],
                                           args.table_args.rmt.fp_proto)) = NULL
  THEN "SESSION_E_INVALID"
  ELSE "none"

\* C29: vnet_session_rule_add_del rejects an invalid request and changes no
\* session table and no rules table: an unknown namespace gives
\* SESSION_E_INVALID_NS; otherwise a scope greater than 3 or a transport
\* protocol other than TCP and UDP gives SESSION_E_INVALID; otherwise a
\* request with the global scope bit, or scope 0, whose namespace's fib has
\* no session table gives SESSION_E_INVALID.
C29_Rejects ==
  [][(RuleCallReturned' /\ RuleRejection(call'.args) # "none") =>
       /\ call'.rv = RuleRejection(call'.args)
       /\ UNCHANGED <<session_tables, srtg, fib_index_to_table_index>>]_vars

\* A request of scope both for the namespace whose fib has no session table
\* has been rejected while rules are installed in the default namespace
C29_Witness ==
  /\ RuleCallReturned
  /\ call.args.appns_index = 1
  /\ call.args.scope = 3
  /\ call.args.transport_proto \in TransportProtos
  /\ call.rv = "SESSION_E_INVALID"
  /\ \E hd \in DOMAIN srtg : \E fp \in FibProtos : srtg[hd][fp] # {}


\* The rules of the request's family in the rules table of a session table
RulesOfTable(st, fib_proto) ==
  IF st = NULL THEN {}
  ELSE IF st.srtg_handle = SESSION_SRTG_HANDLE_INVALID THEN {}
  ELSE srtg[st.srtg_handle][fib_proto]

\* The request's rule is in the rules table of its namespace's global table
RuleInGlobalOf(args) ==
  LET fib_proto == args.table_args.rmt.fp_proto
  IN RuleOf(args.transport_proto, args.table_args) \in
       RulesOfTable(TableOfFib(fib_proto = FIB_PROTOCOL_IP4,
                      app_namespace_get_fib_index(
                        app_namespaces[args.appns_index], fib_proto)),
                    fib_proto)

\* The request's rule, its local prefix and port zeroed, is in the rules table
\* of its namespace's local table
RuleInLocalOf(args) ==
  LET fib_proto == args.table_args.rmt.fp_proto
      l_args == [args.table_args EXCEPT
                   !.lcl = Prefix(fib_proto,
                                  AnyAddr(fib_proto = FIB_PROTOCOL_IP4), 0),
                   !.lcl_port = 0]
  IN RuleOf(args.transport_proto, l_args) \in
       RulesOfTable(session_table_get(session_tables,
                      app_namespaces[args.appns_index].local_table_index),
                    fib_proto)

\* A request of scope both that passed the checks has returned
BothScopeCall ==
  /\ RuleCallReturned
  /\ call.args.scope = 3
  /\ RuleRejection(call.args) = "none"

RuleInGlobal == BothScopeCall /\ RuleInGlobalOf(call.args)
RuleInLocal == BothScopeCall /\ RuleInLocalOf(call.args)

\* C30: a request of scope both is all-or-nothing.  When the rule is in both
\* the global and the local table of the namespace, or in neither, before
\* vnet_session_rule_add_del runs, it is in both or in neither after it.
C30_AllOrNothing ==
  [][(BothScopeCall'
        /\ (RuleInGlobalOf(call'.args) <=> RuleInLocalOf(call'.args))) =>
       (RuleInGlobal' <=> RuleInLocal')]_vars

\* When vnet_session_rule_add_del returns no error for a request of scope
\* both, an added rule is in both tables and a deleted one in neither
BothScopeApplied ==
  (BothScopeCall /\ call.rv = "SESSION_E_NONE") =>
    IF call.args.table_args.is_add THEN RuleInGlobal /\ RuleInLocal
    ELSE ~RuleInGlobal /\ ~RuleInLocal

\* An add of scope both has returned the error of the local table's
\* session_rules_table_add_del and the rule is in the global table only
C30_Witness ==
  /\ BothScopeCall
  /\ call.args.table_args.is_add
  /\ call.rv = "SESSION_E_INVALID"
  /\ RuleInGlobal
  /\ ~RuleInLocal


-----------------------------------------------------------------------------
(* Table lifetime                                                           *)

\* The table each (fib protocol, fib index) pair reaches, NULL for none
LiveTables ==
  [p \in FibProtos \X LifeLookupFibIndices |->
     session_table_get_for_fib_index(fib_index_to_table_index, session_tables,
                                     p[1], p[2])]

\* The entries a table holds right after the call that created it: none after
\* session_lookup_set_tables_appns, the one entry added after an addition
CreatedEntries(c, st) ==
  IF c.op = "session_lookup_set_tables_appns" THEN TableEntries(st) = 0
  ELSE /\ TableEntries(st) = 1
       /\ IF c.op = "session_lookup_add_connection"
          THEN DOMAIN SessionHash(st, c.tc.is_ip4) = {ConnectionKey(c.tc)}
          ELSE DOMAIN HalfOpenHash(st, c.tc.is_ip4) = {ConnectionKey(c.tc)}

\* C31: a freed table stays gone until it is re-created, and comes back empty.
\* A step of session_lookup_table_cleanup removes the table of its pair from
\* the pool and from the registry exactly when the lock count has reached
\* zero; while a pair has no table every lookup under it returns none and
\* every removal fails; a pair without a table gets one only in a step of an
\* addition or of session_lookup_set_tables_appns, and the new table holds
\* nothing but what that call added, so no entry of the freed table is found
\* again.
C31_FreedUntilRecreated ==
  [][/\ (call'.op = "session_lookup_table_cleanup"
           /\ call'.fib_index \in LifeLookupFibIndices
           /\ LiveTables[<<call'.fib_proto, call'.fib_index>>] # NULL) =>
          /\ (LiveTables'[<<call'.fib_proto, call'.fib_index>>] = NULL)
               <=> (LockCount(fib_index_to_lock_count', call'.fib_proto,
                              call'.fib_index) = 0)
          /\ (call'.table_index \notin DOMAIN session_tables')
               <=> (LockCount(fib_index_to_lock_count', call'.fib_proto,
                              call'.fib_index) = 0)
     /\ (call'.op \in ReadOps \cup RemovalOps /\ CallFibTable(call') = NULL) =>
          /\ ReturnedNone(call')
          /\ LiveTables' = LiveTables
     /\ \A p \in DOMAIN LiveTables :
          (LiveTables[p] = NULL /\ LiveTables'[p] # NULL) =>
            /\ call'.op \in AllocatingOps
            /\ CreatedEntries(call', LiveTables'[p])]_vars

\* A safe lookup has returned none under a pair whose table a namespace once
\* locked and released, which freed it, and a half-open addition re-created
C31_Witness ==
  /\ call.op = "session_lookup_safe"
  /\ call.tc.fib_index \in LifeFibIndices
  /\ call.rv = NULL
  /\ CallFibTable(call) # NULL
  /\ CallFibTable(call).appns_index = <<>>
  /\ TableEntries(CallFibTable(call)) > 0
  /\ vec_len(fib_index_to_lock_count[FibProtoOf(call.tc.is_ip4)])
       > call.tc.fib_index
  /\ LockCount(fib_index_to_lock_count, FibProtoOf(call.tc.is_ip4),
               call.tc.fib_index) = 0


-----------------------------------------------------------------------------
(* Additions replace                                                        *)

\* The handles a key is given when it is added again
SecondSessionHandle == SessionHandle(U32(2), U32(6))
SecondHalfOpenHandle == U64FromU32(U32(8))
SecondListenerHandle == U64FromU32(U32(48))

\* The endpoint 10.1.1.1:80 over TCP of the fib-0 table
ReplaceEndpoint(is_ip4) ==
  SessionEndpoint(is_ip4, 0, LclAddr(is_ip4), 80, TRANSPORT_PROTO_TCP)

\* Entries are added, added again under the same key with another handle,
\* removed and looked up.  A key gets its second handle only while it holds
\* one.
NextReplace ==
  \/ /\ call = Idle
     /\ \E is_ip4 \in BOOLEAN :
          \E tc \in FamilyConnections(is_ip4) :
            session_lookup_add_connection(tc, LifeHandle)
  \/ /\ call = Idle
     /\ \E is_ip4 \in BOOLEAN :
          \E tc \in FamilyConnections(is_ip4) :
            Established(tc)
              /\ session_lookup_add_connection(tc, SecondSessionHandle)
  \/ /\ call = Idle
     /\ \E is_ip4 \in BOOLEAN :
          \E tc \in FamilyConnections(is_ip4) :
            session_lookup_del_connection(tc)
  \/ /\ call = Idle
     /\ \E is_ip4 \in BOOLEAN :
          \E tc \in FamilyConnections(is_ip4), value \in HalfOpenHandles :
            session_lookup_add_half_open(tc, value)
  \/ /\ call = Idle
     /\ \E is_ip4 \in BOOLEAN :
          \E tc \in FamilyConnections(is_ip4) :
            HalfOpen(tc)
              /\ session_lookup_add_half_open(tc, SecondHalfOpenHandle)
  \/ /\ call = Idle
     /\ \E is_ip4 \in BOOLEAN :
          \E tc \in FamilyConnections(is_ip4) :
            session_lookup_del_half_open(tc)
  \/ /\ call = Idle
     /\ \E is_ip4 \in BOOLEAN :
          session_lookup_add_session_endpoint(
            FamilyTableIndex(is_ip4, FALSE), ReplaceEndpoint(is_ip4),
            ListenerHandle(ReplaceEndpoint(is_ip4)))
  \/ /\ call = Idle
     /\ \E is_ip4 \in BOOLEAN :
          /\ session_lookup_listener(FamilyTableIndex(is_ip4, FALSE),
                                     ReplaceEndpoint(is_ip4))
               # NULL
          /\ session_lookup_add_session_endpoint(
               FamilyTableIndex(is_ip4, FALSE), ReplaceEndpoint(is_ip4),
               SecondListenerHandle)
  \/ /\ call = Idle
     /\ \E is_ip4 \in BOOLEAN :
          session_lookup_del_session_endpoint(
            FamilyTableIndex(is_ip4, FALSE), ReplaceEndpoint(is_ip4))
  \/ /\ call = Idle
     /\ \E is_ip4 \in BOOLEAN :
          \E tc \in FamilyConnections(is_ip4) : Lookup6Tuple(tc)
  \/ /\ call = Idle
     /\ \E is_ip4 \in BOOLEAN :
          \E tc \in FamilyConnections(is_ip4) : LookupHalfOpenHandle(tc)
  \/ /\ call = Idle
     /\ \E is_ip4 \in BOOLEAN :
          LookupListener(FamilyTableIndex(is_ip4, FALSE),
                         ReplaceEndpoint(is_ip4))
  \/ CallerContinues

ReplaceSpec == Init /\ [][NextReplace]_vars

\* The hash an addition or removal call writes, before and after the step,
\* and the key it writes
WrittenHashField(c) ==
  IF c.op \in {"session_lookup_add_half_open", "session_lookup_del_half_open"}
  THEN HalfOpenHashOf(c.tc)
  ELSE IF c.op \in {"session_lookup_add_connection",
                    "session_lookup_del_connection"}
  THEN EstablishedHashOf(c.tc)
  ELSE IF c.sep.is_ip4 THEN "v4_session_hash" ELSE "v6_session_hash"

WrittenKey(c) ==
  IF c.op \in {"session_lookup_add_session_endpoint",
               "session_lookup_del_session_endpoint"}
  THEN ListenerKey(c.sep.is_ip4, c.sep.ip, c.sep.port, c.sep.transport_proto)
  ELSE ConnectionKey(c.tc)

WrittenTableIndex(reg, c) ==
  IF c.op \in {"session_lookup_add_session_endpoint",
               "session_lookup_del_session_endpoint"}
  THEN c.table_index
  ELSE session_table_get_for_connection(reg, c.tc)

AddOps ==
  {"session_lookup_add_connection", "session_lookup_add_half_open",
   "session_lookup_add_session_endpoint"}

DelOps ==
  {"session_lookup_del_connection", "session_lookup_del_half_open",
   "session_lookup_del_session_endpoint"}

\* C32: additions replace.  A step that adds a connection, a half-open or a
\* listener entry leaves its hash with the call's handle under the call's
\* key and with every other key as it was, whether or not the key was
\* present, so the hash holds one entry for the key and the latest handle
\* wins; a step that removes leaves the key absent, however often it was
\* added.
C32_AdditionsReplace ==
  [][LET c == call'
     IN (c.op \in AddOps \cup DelOps
           /\ WrittenTableIndex(fib_index_to_table_index', c)
                \in DOMAIN session_tables') =>
          LET i == WrittenTableIndex(fib_index_to_table_index', c)
              before == TableHash(session_tables, i, WrittenHashField(c))
              after == TableHash(session_tables', i, WrittenHashField(c))
              key == WrittenKey(c)
          IN /\ SameButKey(after, before, key)
             /\ c.op \in AddOps =>
                  /\ key \in DOMAIN after
                  /\ after[key] = c.value
                  /\ Cardinality(DOMAIN after)
                       = Cardinality((DOMAIN before) \cup {key})
             /\ c.op \in DelOps => key \notin DOMAIN after]_vars

\* A half-open tuple that was added, and added again with a second handle, is
\* looked up: the handle is the second one, the only entry of the hash
C32_Witness ==
  /\ call.op = "session_lookup_half_open_handle"
  /\ call.rv = SecondHalfOpenHandle
  /\ HalfOpen(call.tc)
  /\ Cardinality(DOMAIN HalfOpenHash(TableOfFib(call.tc.is_ip4,
                                                call.tc.fib_index),
                                     call.tc.is_ip4)) = 1


-----------------------------------------------------------------------------
(* Protocol isolation of the local endpoint lookup                          *)

\* A local endpoint lookup has returned a handle found in the hash: the table
\* exists and its rules, if any, give ALLOW or no action
LocalEndpointHashHit ==
  /\ call.op = "session_lookup_local_endpoint"
  /\ call.table_index \in DOMAIN session_tables
  /\ LocalRulesAction(session_tables[call.table_index], call.sep)
       \in {SESSION_RULES_TABLE_ACTION_ALLOW, SESSION_RULES_TABLE_INVALID_INDEX}
  /\ call.rv # SESSION_INVALID_HANDLE

\* The endpoints of transport protocol proto whose listener key holds the
\* handle in the hash of the lookup's table
BoundWithHandle(proto, handle) ==
  LET h == SessionHash(session_tables[call.table_index], call.sep.is_ip4)
  IN {sep \in LocalEndpoints(call.sep.is_ip4) :
        /\ sep.transport_proto = proto
        /\ ListenerKey(sep.is_ip4, sep.ip, sep.port, sep.transport_proto)
             \in DOMAIN h
        /\ h[ListenerKey(sep.is_ip4, sep.ip, sep.port, sep.transport_proto)]
             = handle}

\* C33: protocol isolation in the local endpoint lookup.  A handle that
\* session_lookup_local_endpoint returns from the hash for an endpoint of
\* transport protocol q is the handle of an entry inserted for an endpoint
\* of protocol q, whichever probe (exact, address-zeroed, proxy) found it.
C33_ProtocolIsolation ==
  LocalEndpointHashHit =>
    BoundWithHandle(call.sep.transport_proto, call.rv) # {}

\* Isolation holds whenever the table has no entry under the all-zero key,
\* the key of the any-address zero-port TCP endpoint: the exact and the
\* address-zeroed probe keep the protocol of the endpoint
LocalEndpointIsolatedButLastProbe ==
  (LocalEndpointHashHit
     /\ ListenerKey(call.sep.is_ip4, AnyAddr(call.sep.is_ip4), 0, 0)
          \notin DOMAIN SessionHash(session_tables[call.table_index],
                                    call.sep.is_ip4)) =>
    BoundWithHandle(call.sep.transport_proto, call.rv) # {}

\* A UDP endpoint has been looked up and the handle returned is that of an
\* entry inserted for a TCP endpoint, no UDP entry holding that handle
C33_Witness ==
  /\ LocalEndpointHashHit
  /\ call.sep.transport_proto = TRANSPORT_PROTO_UDP
  /\ BoundWithHandle(TRANSPORT_PROTO_TCP, call.rv) # {}
  /\ BoundWithHandle(TRANSPORT_PROTO_UDP, call.rv) = {}


-----------------------------------------------------------------------------
(* Entry kinds in the shared hash                                           *)

\* The handles session_lookup_add_session_endpoint stores: one per endpoint
ListenerHandles(is_ip4) ==
  {ListenerHandle(sep) : sep \in SessionEndpoints(is_ip4)}

\* The entry the established probe of the connection lookup that just
\* returned has found was inserted by session_lookup_add_connection
EstablishedProbeFindsConnection ==
  SessionHash(TableOfFib(call.tc.is_ip4, call.tc.fib_index),
              call.tc.is_ip4)[ConnectionKey(call.tc)] \in SessionHandles

\* C34: entry-kind separation in the shared map.  For every tuple, those
\* with zero remote address and zero remote port included, an entry that the
\* established probe of a connection lookup finds was inserted by
\* session_lookup_add_connection, and an entry that the probes of a listener
\* search find was inserted by session_lookup_add_session_endpoint.
C34_KindSeparation ==
  /\ (ConnectionLookupCall /\ Established(call.tc)) =>
       EstablishedProbeFindsConnection
  /\ (ListenerCall /\ ListenerCallTable # NULL) =>
       FirstHit(ListenerCallHash,
                ListenerProbes(call.sep.is_ip4, call.sep.ip, call.sep.port,
                               call.sep.transport_proto, ListenerCallWildcard))
         \subseteq ListenerHandles(call.sep.is_ip4)

\* The separation holds for every tuple whose remote address or remote port
\* is not zero, and for every listener search
KindSeparationNonZeroRemote ==
  /\ (ConnectionLookupCall /\ Established(call.tc)
        /\ (call.tc.rmt_ip # AnyAddr(call.tc.is_ip4) \/ call.tc.rmt_port # 0)) =>
       EstablishedProbeFindsConnection
  /\ (ListenerCall /\ ListenerCallTable # NULL) =>
       FirstHit(ListenerCallHash,
                ListenerProbes(call.sep.is_ip4, call.sep.ip, call.sep.port,
                               call.sep.transport_proto, ListenerCallWildcard))
         \subseteq ListenerHandles(call.sep.is_ip4)

\* The fast path has looked up a tuple with zero remote address and port for
\* which only a listener is bound: the established probe found the listener's
\* entry and the lookup ended there
C34_Witness ==
  /\ WtCall
  /\ call.tc.rmt_ip = AnyAddr(call.tc.is_ip4)
  /\ call.tc.rmt_port = 0
  /\ Established(call.tc)
  /\ SessionHash(TableOfFib(call.tc.is_ip4, call.tc.fib_index),
                 call.tc.is_ip4)[ConnectionKey(call.tc)]
       \in ListenerHandles(call.tc.is_ip4)
  /\ \/ call.result = SESSION_LOOKUP_RESULT_WRONG_THREAD
     \/ (call.rv # NULL /\ call.rv.kind = "connection")


-----------------------------------------------------------------------------
(* Reference bookkeeping                                                    *)

\* How often a namespace may attach before it releases
MaxAttach == 2
\* The lock count up to which namespaces attach
MaxLockCount == 3

\* The number of entries of a namespace on the namespace lists of the tables
Attachments(appns_index) ==
  SumOver([i \in DOMAIN session_tables |->
             Cardinality({j \in DOMAIN session_tables[i].appns_index :
                            session_tables[i].appns_index[j] = appns_index})],
          DOMAIN session_tables)

\* Namespaces attach, also again while attached, and release the tables of
\* their fib indices; every release is of a namespace on the table's list
NextAttach ==
  \/ /\ call = Idle
     /\ \E appns_index \in LifeNamespaces :
          /\ Attachments(appns_index) < MaxAttach
          /\ \A fp \in FibProtos, fib_index \in LifeFibIndices :
               LockCount(fib_index_to_lock_count, fp, fib_index) < MaxLockCount
          /\ session_lookup_set_tables_appns(appns_index)
  \/ /\ call = Idle
     /\ \E appns_index \in LifeNamespaces, fib_proto \in FibProtos :
          session_lookup_table_cleanup(fib_proto,
            app_namespace_get_fib_index(app_namespaces[appns_index], fib_proto),
            appns_index)
  \/ /\ call = Idle
     /\ \E is_ip4 \in BOOLEAN, fib_index \in LifeLookupFibIndices :
          LookupConnection(LifeConnection(is_ip4, fib_index))
  \/ CallerContinues

AttachSpec == Init /\ [][NextAttach]_vars

\* The lock count of a pair with a table is the length of the table's
\* namespace list
LockCountMatches ==
  \A p \in DOMAIN LiveTables :
    LiveTables[p] # NULL =>
      LockCount(fib_index_to_lock_count, p[1], p[2])
        = Len(LiveTables[p].appns_index)

LockCountNeverNegative ==
  \A fp \in FibProtos :
    \A i \in DOMAIN fib_index_to_lock_count[fp] :
      fib_index_to_lock_count[fp][i] >= 0

\* C35: reference bookkeeping.  After any sequence of
\* session_lookup_set_tables_appns and session_lookup_table_cleanup calls in
\* which every cleanup releases a namespace that is on the table's list and
\* holds a lock, the lock count of every fib index that has a table equals
\* the number of namespace ids on the table's namespace list, and no lock
\* count is below zero.
C35_LockCountMatches == LockCountMatches /\ LockCountNeverNegative

\* A cleanup has returned with the table in place, two locks left on its fib
\* index and one namespace left on its list
C35_Witness ==
  /\ call.op = "session_lookup_table_cleanup"
  /\ call.fib_index \in LifeFibIndices
  /\ LiveTables[<<call.fib_proto, call.fib_index>>] # NULL
  /\ LockCount(fib_index_to_lock_count, call.fib_proto, call.fib_index) = 2
  /\ Len(LiveTables[<<call.fib_proto, call.fib_index>>].appns_index) = 1


\* ---------------------------------------------------------------------------
\* Registry injectivity
\* ---------------------------------------------------------------------------

\* The (fib protocol, fib index) pairs a call can name
FibPairs == {FIB_PROTOCOL_IP4, FIB_PROTOCOL_IP6} \X (0..(MaxNewFibIndex + 1))

\* The pairs the registry marks allocated
AllocatedPairs ==
  { p \in FibPairs :
      session_table_is_alloced(fib_index_to_table_index, p[1], p[2]) }

\* C36: registry injectivity.  In every reachable state two different
\* (fib protocol, fib index) pairs that are marked allocated map to different
\* session table indices, and fib index 0 of IPv4 and fib index 0 of IPv6,
\* which session_lookup_init maps, hold two distinct tables of the pool.
C36_Injective ==
  /\ \A p \in AllocatedPairs : \A q \in AllocatedPairs :
       p # q => RegistrySlot(p[1], p[2]) # RegistrySlot(q[1], q[2])
  /\ <<FIB_PROTOCOL_IP4, 0>> \in AllocatedPairs
  /\ <<FIB_PROTOCOL_IP6, 0>> \in AllocatedPairs
  /\ RegistrySlot(FIB_PROTOCOL_IP4, 0) # RegistrySlot(FIB_PROTOCOL_IP6, 0)
  /\ RegistrySlot(FIB_PROTOCOL_IP4, 0) \in DOMAIN session_tables
  /\ RegistrySlot(FIB_PROTOCOL_IP6, 0) \in DOMAIN session_tables

\* The IPv4 table of fib index 1 was locked by a namespace, freed by
\* session_lookup_table_cleanup when its lock count reached zero and allocated
\* again, and the IPv6 table of fib index 1 took the pool index it gave back.
C36_Witness ==
  /\ <<FIB_PROTOCOL_IP4, 1>> \in AllocatedPairs
  /\ <<FIB_PROTOCOL_IP6, 1>> \in AllocatedPairs
  /\ vec_len(fib_index_to_lock_count[FIB_PROTOCOL_IP4]) > 1
  /\ LockCount(fib_index_to_lock_count, FIB_PROTOCOL_IP4, 1) = 0
  /\ RegistrySlot(FIB_PROTOCOL_IP6, 1) < RegistrySlot(FIB_PROTOCOL_IP4, 1)


\* ---------------------------------------------------------------------------
\* Allocation completes and restores the barrier and the lock
\* ---------------------------------------------------------------------------

\* One step of thread t inside session_table_get_or_alloc
GetOrAllocStep(t) ==
  \/ get_or_alloc_is_alloced(t)
  \/ get_or_alloc_needs_sync(t)
  \/ get_or_alloc_workers_sync(t)
  \/ get_or_alloc_spinlock_lock(t)
  \/ get_or_alloc_recheck(t)
  \/ get_or_alloc_alloc(t)
  \/ get_or_alloc_init(t)
  \/ get_or_alloc_publish(t)
  \/ get_or_alloc_spinlock_unlock(t)
  \/ get_or_alloc_workers_continue(t)
  \/ get_or_alloc_return(t)

\* One step of worker t inside session_table_get_for_fib_index
GetForFibIndexStep(t) ==
  \/ get_for_fib_index_vec_len(t)
  \/ get_for_fib_index_vec_elt(t)
  \/ get_for_fib_index_return(t)

\* Every thread runs on its own core and keeps executing the call it is in; a
\* worker passes vlib_worker_thread_barrier_check at every turn of its
\* dispatch loop, so one that keeps coming back to the loop while a barrier is
\* requested parks there.
AllocFairness ==
  /\ \A t \in Threads : WF_vars(GetOrAllocStep(t))
  /\ \A t \in Workers : WF_vars(GetForFibIndexStep(t))
  /\ \A t \in Workers : SF_vars(worker_barrier_park(t))

AllocFairSpec == Init /\ [][NextAlloc]_vars /\ AllocFairness

\* Positions at which a call holds st_alloc_lock
HoldsAllocLock ==
  {"recheck", "alloc", "init", "publish", "spinlock_unlock"}

\* A call that paused the workers and took st_alloc_lock reaches return st
\* only out of vlib_workers_continue and without the lock, holds the lock
\* exactly between clib_spinlock_lock and clib_spinlock_unlock, and goes to
\* the unlock from both the recheck that finds the table and the publication
\* of a new one.
C37_Restores ==
  [][\A t \in Threads :
       /\ (threads[t].needs_sync /\ threads[t].pc # "return"
           /\ threads'[t].pc = "return")
            => /\ threads[t].pc = "workers_continue"
               /\ t \notin st_alloc_lock'
       /\ (t \in st_alloc_lock')
            <=> (threads'[t].needs_sync /\ threads'[t].pc \in HoldsAllocLock)
       /\ (threads[t].needs_sync /\ threads[t].pc \in {"recheck", "publish"}
           /\ threads'[t].pc \notin {threads[t].pc, "alloc"})
            => threads'[t].pc = "spinlock_unlock"
       /\ (threads[t].pc = "return" /\ threads'[t].pc = "idle")
            => t \notin st_alloc_lock']_vars

\* With several workers requesting allocation concurrently, each call that
\* entered session_table_get_or_alloc eventually returns.
C37_Returns ==
  \A t \in Threads :
    (threads[t].pc = "is_alloced") ~> (threads[t].pc = "return")

\* C37: allocation always completes and restores the system.  Every
\* session_table_get_or_alloc call that pauses the workers and takes
\* st_alloc_lock releases the lock and resumes the workers before it returns,
\* on the path that finds the table allocated by another worker and on the
\* allocating path, and every call eventually returns.
C37_CompletesAndRestores == C37_Restores /\ C37_Returns

\* Two workers asked for the same missing table together: both paused the
\* workers and took the lock in turn, one allocated the table and the other
\* found it at the recheck, and both are about to return it with the lock free
\* and the workers resumed.
C37_Witness ==
  \E t \in Workers : \E u \in Workers \ {t} :
    /\ threads[t].pc = "return" /\ threads[u].pc = "return"
    /\ threads[t].needs_sync /\ threads[u].needs_sync
    /\ threads[t].fib_proto = threads[u].fib_proto
    /\ threads[t].fib_index = threads[u].fib_index
    /\ threads[t].st = threads[u].st
    /\ st_alloc_lock = {}
    /\ ~WorkersSyncing


\* ---------------------------------------------------------------------------
\* One-time event wake-up
\* ---------------------------------------------------------------------------

\* Processes start, create one-time events, wait, yield and are resumed, and
\* processes and nodes signal one-time events
NextProcess ==
  \/ \E runtime_index \in ProcessIndices : vlib_process_startup(runtime_index)
  \/ vlib_process_yield
  \/ vlib_process_create_one_time_event
  \/ \E with_type_index \in EventTypes :
       vlib_process_wait_for_one_time_event(with_type_index)
  \/ vlib_process_wait_for_event
  \/ \E node_index \in DOMAIN vlib_nodes, type_index \in EventTypes :
       \E data \in EventData :
         vlib_process_signal_one_time_event(node_index, type_index, data)
  \/ dispatch_suspended_process

ProcessSpec == Init /\ [][NextProcess]_vars

\* Process i is suspended in vlib_process_wait_for_one_time_event for type t
SuspendedInOneTimeWait(i, t) ==
  /\ node_main.processes[i].state
       = "VLIB_PROCESS_STATE_WAIT_FOR_ONE_TIME_EVENT"
  /\ node_main.processes[i].with_type_index = t

\* Process i is suspended in vlib_process_wait_for_event
SuspendedInEventWait(i) ==
  node_main.processes[i].state = "VLIB_PROCESS_STATE_WAIT_FOR_EVENT"

\* The restore records of both queues
RestoreRecords(nm) ==
  {nm.process_restore_current[k] : k \in DOMAIN nm.process_restore_current}
  \cup {nm.process_restore_next[k] : k \in DOMAIN nm.process_restore_next}

\* Process i is queued for resumption
QueuedForResumption(nm, i) ==
  \E r \in RestoreRecords(nm) : r.runtime_index = i

\* The data pending for type t of process i
PendingData(nm, i, t) == nm.processes[i].pending_event_data_by_type_index[t]

\* C38: one-time event wake-up.  When a step signals event type t to a process
\* that is suspended in vlib_process_wait_for_one_time_event for t, the
\* process is queued for resumption after the step.
C38_QueuedOnSignal ==
  [][\A i \in ProcessIndices : \A t \in EventTypes :
       (/\ SuspendedInOneTimeWait(i, t)
        /\ Len(PendingData(node_main', i, t)) > Len(PendingData(node_main, i, t)))
         => QueuedForResumption(node_main', i)]_vars

\* A process is suspended in vlib_process_wait_for_one_time_event for a type
\* that has since been signalled: the data is pending and the type is marked
\* non-empty, and the process is in no resume queue.
C38_Witness ==
  \E i \in ProcessIndices : \E t \in EventTypes :
    /\ SuspendedInOneTimeWait(i, t)
    /\ t \in node_main.processes[i].non_empty_event_type_bitmap
    /\ PendingData(node_main, i, t) # <<>>
    /\ ~QueuedForResumption(node_main, i)
    /\ node_main.processes[i].event_resume_pending = 0

\* A process suspended in vlib_process_wait_for_one_time_event stays
\* suspended for good: no step takes it out of the wait.
OneTimeWaitNeverResumed ==
  [][\A i \in ProcessIndices : \A t \in EventTypes :
       SuspendedInOneTimeWait(i, t) => SuspendedInOneTimeWait(i, t)']_vars

\* A signal to a process suspended in vlib_process_wait_for_event, by another
\* process or a node, queues the process for resumption.
EventWaitQueuedOnSignal ==
  [][\A i \in ProcessIndices : \A t \in EventTypes :
       (/\ SuspendedInEventWait(i)
        /\ Len(PendingData(node_main', i, t)) > Len(PendingData(node_main, i, t)))
         => QueuedForResumption(node_main', i)]_vars

\* A process that returned from vlib_process_wait_for_one_time_event without
\* suspending, the type having been signalled before the call, holds the
\* signalled data in its data vector.
SignalledBeforeWaitReturned ==
  \E i \in ProcessIndices :
    /\ node_main.current_process_index = i
    /\ node_main.processes[i].state = "VLIB_PROCESS_STATE_RUNNING"
    /\ node_main.processes[i].data_vector # <<>>

=============================================================================
